---- MODULE Spec2Model ----
(***************************************************************************)
(* A model of the kookie vault core: key derivation (crypto/kdf.rs), the   *)
(* authenticated cipher (crypto/cipher.rs), vault storage                  *)
(* (vault/storage.rs), the session cache (session/cache.rs) and the        *)
(* commands that drive them (commands/*.rs).                               *)
(*                                                                         *)
(* Bytes are integers 0..255; a base64 string is a sequence of sextets     *)
(* 0..63, the padding character PAD, or a character outside the alphabet.  *)
(* AES-256-GCM and Argon2id are library code: they are modelled as an      *)
(* ideal AEAD (a keystream plus a tag oracle over the calls made so far)   *)
(* and an injective function of (password, salt).  The operating system's  *)
(* entropy source is idealised as a stream that never repeats a value.     *)
(***************************************************************************)
EXTENDS Integers, Sequences, FiniteSets, TLC

VARIABLES
    entropy,    \* number of values drawn so far from the random generators
    encLog,     \* every encrypt call so far: [key, nonce, pt, ct, out]
    blob,       \* cipher harness: the encoded blob under test
    blobSrc,    \* cipher harness: index in encLog the blob was produced by
    tampered,   \* cipher harness: how the blob was altered since ("no" if not)
    dKey,       \* cipher harness: key of the last decrypt call
    result,     \* cipher harness: result of the last decrypt call
    kdfLog,     \* key-derivation harness: the derive_key calls made so far
    saved,      \* session harness: the last save_session call
    inflight,   \* overlapping invocations: what each has loaded and written
    locked,     \* a lock has completed and no password has unlocked the vault since
    vaultFile,  \* ~/.kookie/vault.json
    sessionFile,\* ~/.kookie/.session
    configFile, \* ~/.kookie/config.json: timeout_minutes, or NoConfig
    now,        \* the clock, in minutes
    master,     \* the password the vault on disk was initialized with
    last        \* what the last command invocation did and reported

cipherVars == <<blob, blobSrc, tampered, dKey, result>>
benchVars == <<blob, blobSrc, tampered, dKey, result, kdfLog, saved, locked>>
harnessVars == <<blob, blobSrc, tampered, dKey, result, kdfLog, saved, inflight,
                 locked>>
diskVars == <<vaultFile, sessionFile, configFile, now, master, last>>

vars == <<entropy, encLog, blob, blobSrc, tampered, dKey, result, kdfLog, saved,
          inflight, locked, vaultFile, sessionFile, configFile, now, master, last>>

----------------------------------------------------------------------------
(* Bounds *)

NKeys == 2          \* keys the cipher harness draws from
MaxPtLen == 1       \* longest plaintext the cipher harness encrypts
MaxEnc == 2         \* encrypt calls in one run of the cipher harness
NSalts == 2         \* generated salts the key-derivation harness draws from
MaxWrites == 4      \* writes of the vault file in one run
MaxKdf == 3         \* derive_key calls in one run of the key-derivation harness
MaxInits == 2       \* vaults created in one run
MaxTimedWrites == 3 \* writes of the vault file in one run with a clock
MaxNow == 2         \* minutes the clock advances in one run
MaxFaultWrites == 2 \* writes of the vault file in one run with damaged files
MaxRecordsNow == 1  \* minutes the clock advances in one run of adds and deletes
MaxOverlapWrites == 2 \* writes of the vault file in one run of overlapping unlocks

(* Program and library constants *)

NONCE_SIZE == 12    \* crypto/cipher.rs:26
TAG_SIZE == 16      \* AES-GCM tag length (aes_gcm crate)
KEY_LEN == 32       \* [u8; 32]
OUTPUT_LEN == 32    \* crypto/kdf.rs:31
SALT_BYTES == 16    \* SaltString::generate: Salt::RECOMMENDED_LENGTH
SALT_MIN == 4       \* password_hash::Salt::MIN_LENGTH
SALT_MAX == 64      \* password_hash::Salt::MAX_LENGTH
PAD == 64           \* the base64 padding character '='
BADCHAR == 65       \* a character outside the base64 alphabet

----------------------------------------------------------------------------
(* Sequences of bytes *)

Take(s, n) == SubSeq(s, 1, n)
Drop(s, n) == SubSeq(s, n + 1, Len(s))

----------------------------------------------------------------------------
(* base64, STANDARD engine: padded, canonical trailing bits required *)

\* BASE64.encode: every three bytes give four characters; a short last
\* group is padded.
B64Encode(b) ==
    LET byte(k) == IF k <= Len(b) THEN b[k] ELSE 0
        char(j) ==
            LET k == ((j - 1) \div 4) * 3 + 1
                r == (j - 1) % 4
            IN  IF r = 0 THEN byte(k) \div 4
                ELSE IF r = 1 THEN (byte(k) % 4) * 16 + (byte(k + 1) \div 16)
                ELSE IF r = 2 THEN
                    IF k + 1 > Len(b) THEN PAD
                    ELSE (byte(k + 1) % 16) * 4 + (byte(k + 2) \div 64)
                ELSE IF k + 2 > Len(b) THEN PAD ELSE byte(k + 2) % 64
    IN  [j \in 1..(((Len(b) + 2) \div 3) * 4) |-> char(j)]

IsSextet(c) == c >= 0 /\ c < 64

\* The number of padding characters a string ends with (at most two count).
B64Padding(s) ==
    IF Len(s) >= 1 /\ s[Len(s)] = PAD
    THEN IF Len(s) >= 2 /\ s[Len(s) - 1] = PAD THEN 2 ELSE 1
    ELSE 0

\* BASE64.decode: whole groups of four, characters of the alphabet, padding
\* only at the end, unused bits of the last character zero.
B64Decode(s) ==
    LET n   == Len(s)
        pad == B64Padding(s)
        valid ==
            /\ n % 4 = 0
            /\ \A i \in 1..(n - pad) : s[i] < PAD
            /\ pad = 1 => s[n - 1] % 4 = 0
            /\ pad = 2 => s[n - 2] % 16 = 0
        byte(i) ==
            LET k == ((i - 1) \div 3) * 4 + 1
                r == (i - 1) % 3
            IN  IF r = 0 THEN s[k] * 4 + (s[k + 1] \div 16)
                ELSE IF r = 1 THEN (s[k + 1] % 16) * 16 + (s[k + 2] \div 4)
                ELSE (s[k + 2] % 4) * 64 + s[k + 3]
    IN  IF valid THEN [ok |-> TRUE, val |-> [i \in 1..((n \div 4) * 3 - pad) |-> byte(i)]]
        ELSE [ok |-> FALSE, val |-> <<>>]

----------------------------------------------------------------------------
(* The random generators (rand::thread_rng, OsRng): the d-th draw of n     *)
(* bytes.  Distinct draws give distinct values.                            *)

RandomBytes(d, n) == [j \in 1..n |-> (d * 37 + j * 11) % 256]

----------------------------------------------------------------------------
(* AES-256-GCM as an ideal AEAD.  The ciphertext is the plaintext under a  *)
(* keystream of (key, nonce); the tag of (key, nonce, ct) is the position  *)
(* of the first encrypt call with those values, so a tag verifies only for *)
(* the key, nonce and ciphertext it was computed for.                      *)

KeyStream(key, nonce, i) ==
    (key[((i - 1) % KEY_LEN) + 1] + nonce[((i - 1) % NONCE_SIZE) + 1] + i) % 256

GcmSeal(key, nonce, pt) ==
    [i \in 1..Len(pt) |-> (pt[i] + KeyStream(key, nonce, i)) % 256]

GcmOpen(key, nonce, ct) ==
    [i \in 1..Len(ct) |-> (ct[i] + 256 - KeyStream(key, nonce, i)) % 256]

TagBytes(idx) == [j \in 1..TAG_SIZE |-> (idx * 29 + j * 7) % 256]

\* Positions of the calls in log that sealed ct under (key, nonce).
TagIndices(log, key, nonce, ct) ==
    {i \in 1..Len(log) :
        log[i].key = key /\ log[i].nonce = nonce /\ log[i].ct = ct}

MinOf(S) == CHOOSE x \in S : \A y \in S : x <= y

GcmTag(log, key, nonce, ct) == TagBytes(MinOf(TagIndices(log, key, nonce, ct)))

\* aead::Aead::decrypt: the input is ct || tag; it fails when shorter than
\* a tag or when the tag does not verify.
GcmDecrypt(log, key, nonce, body) ==
    IF Len(body) < TAG_SIZE THEN [ok |-> FALSE, val |-> <<>>]
    ELSE LET ct  == Take(body, Len(body) - TAG_SIZE)
             tag == Drop(body, Len(body) - TAG_SIZE)
             idx == TagIndices(log, key, nonce, ct)
         IN  IF idx # {} /\ tag = TagBytes(MinOf(idx))
             THEN [ok |-> TRUE, val |-> GcmOpen(key, nonce, ct)]
             ELSE [ok |-> FALSE, val |-> <<>>]

----------------------------------------------------------------------------
(* crypto/cipher.rs *)

Ok(v) == [ok |-> TRUE, val |-> v, err |-> "none"]
Err(e) == [ok |-> FALSE, val |-> <<>>, err |-> e]

\* A nonce that is not drawn per call.
FillBytesStale(d, n) == [j \in 1..n |-> 0]

\* rand::thread_rng().fill_bytes(&mut nonce_bytes), for the d-th draw
FillBytes(d, n) == RandomBytes(d, n)

\* An encrypt that returns the sealed bytes without the nonce in front.
EncryptCallNoNonce(log, d, key, pt) ==
    LET nonce == FillBytes(d, NONCE_SIZE)
        ct    == GcmSeal(key, nonce, pt)
        entry == [key |-> key, nonce |-> nonce, pt |-> pt, ct |-> ct, out |-> <<>>]
        tag   == GcmTag(Append(log, entry), key, nonce, ct)
    IN  [entry EXCEPT !.out = B64Encode(ct \o tag)]

\* The record of one encrypt call: what it drew, sealed and returned.
EncryptCall(log, d, key, pt) ==
    LET nonce == FillBytes(d, NONCE_SIZE)
        ct    == GcmSeal(key, nonce, pt)
        entry == [key |-> key, nonce |-> nonce, pt |-> pt, ct |-> ct, out |-> <<>>]
        tag   == GcmTag(Append(log, entry), key, nonce, ct)
    IN  [entry EXCEPT !.out = B64Encode(nonce \o ct \o tag)]

\* A decrypt that splits the nonce off at the wrong place.
DecryptBadSplit(log, key, ciphertext_b64) ==
    LET dec == B64Decode(ciphertext_b64)
    IN  IF ~dec.ok THEN Err("InvalidFormat")
        ELSE IF Len(dec.val) < NONCE_SIZE THEN Err("InvalidFormat")
        ELSE LET r == GcmDecrypt(log, key, Take(dec.val, NONCE_SIZE),
                                 Drop(dec.val, NONCE_SIZE + 1))
             IN  IF r.ok THEN Ok(r.val) ELSE Err("DecryptionFailed")

\* A decrypt that does not verify the tag.
DecryptNoAuth(log, key, ciphertext_b64) ==
    LET dec == B64Decode(ciphertext_b64)
    IN  IF ~dec.ok THEN Err("InvalidFormat")
        ELSE IF Len(dec.val) < NONCE_SIZE THEN Err("InvalidFormat")
        ELSE LET body == Drop(dec.val, NONCE_SIZE)
             IN  IF Len(body) < TAG_SIZE THEN Err("DecryptionFailed")
                 ELSE Ok(GcmOpen(key, Take(dec.val, NONCE_SIZE),
                                 Take(body, Len(body) - TAG_SIZE)))

\* A decrypt that reports a payload too short for a tag as a format error.
DecryptShortIsFormat(log, key, ciphertext_b64) ==
    LET dec == B64Decode(ciphertext_b64)
    IN  IF ~dec.ok THEN Err("InvalidFormat")
        ELSE IF Len(dec.val) < NONCE_SIZE + TAG_SIZE THEN Err("InvalidFormat")
        ELSE LET r == GcmDecrypt(log, key, Take(dec.val, NONCE_SIZE),
                                 Drop(dec.val, NONCE_SIZE))
             IN  IF r.ok THEN Ok(r.val) ELSE Err("DecryptionFailed")

Decrypt(log, key, ciphertext_b64) ==
    LET dec == B64Decode(ciphertext_b64)
    IN  IF ~dec.ok THEN Err("InvalidFormat")
        ELSE IF Len(dec.val) < NONCE_SIZE THEN Err("InvalidFormat")
        ELSE LET r == GcmDecrypt(log, key, Take(dec.val, NONCE_SIZE),
                                 Drop(dec.val, NONCE_SIZE))
             IN  IF r.ok THEN Ok(r.val) ELSE Err("DecryptionFailed")

----------------------------------------------------------------------------
(* crypto/kdf.rs *)

MEMORY_COST == 65536    \* crypto/kdf.rs:28
TIME_COST == 3          \* crypto/kdf.rs:29
PARALLELISM == 4        \* crypto/kdf.rs:30

\* The character of s that position j falls on, 0 for the empty string.
At(s, j) == IF Len(s) = 0 THEN 0 ELSE s[((j - 1) % Len(s)) + 1]

\* Argon2id as a function of (password, salt) that is injective on the
\* passwords and salts of the model.
Argon2id(password, salt, n) ==
    [j \in 1..n |-> (At(password, j) * 3 + At(salt, j) * 5 + Len(password) + j) % 256]

\* SaltString::from_b64: unpadded base64 of 4 to 64 characters.
SaltFromB64(salt) ==
    /\ Len(salt) >= SALT_MIN
    /\ Len(salt) <= SALT_MAX
    /\ \A i \in 1..Len(salt) : IsSextet(salt[i])

\* Params::new(m_cost, t_cost, p_cost, Some(output_len))
ParamsNew(m, t, p, len) == p >= 1 /\ m >= 8 * p /\ t >= 1 /\ len >= 4

\* A derivation that does not use the stored salt.
DeriveKeyNoSalt(password, salt) ==
    IF ~SaltFromB64(salt) THEN Err("InvalidSalt")
    ELSE Ok(Take(Argon2id(password, <<>>, OUTPUT_LEN), KEY_LEN))

\* A derivation that does not use the password.
DeriveKeyNoPassword(password, salt) ==
    IF ~SaltFromB64(salt) THEN Err("InvalidSalt")
    ELSE Ok(Take(Argon2id(<<>>, salt, OUTPUT_LEN), KEY_LEN))

\* A derivation that takes any text as a salt.
DeriveKeyAnySalt(password, salt) ==
    IF ~ParamsNew(MEMORY_COST, TIME_COST, PARALLELISM, OUTPUT_LEN)
    THEN Err("DerivationError")
    ELSE Ok(Take(Argon2id(password, salt, OUTPUT_LEN), KEY_LEN))

DeriveKey(password, salt) ==
    IF ~SaltFromB64(salt) THEN Err("InvalidSalt")
    ELSE IF ~ParamsNew(MEMORY_COST, TIME_COST, PARALLELISM, OUTPUT_LEN)
         THEN Err("DerivationError")
    ELSE Ok(Take(Argon2id(password, salt, OUTPUT_LEN), KEY_LEN))

\* SaltString::generate(&mut OsRng).to_string(), for the d-th draw
GenerateSalt(d) ==
    SelectSeq(B64Encode(RandomBytes(d, SALT_BYTES)), LAMBDA c : c # PAD)

----------------------------------------------------------------------------
(* vault/types.rs: the secret collection *)

Kinds == <<"passwords", "api_keys", "notes", "db_credentials", "tokens">>
KindSet == {Kinds[i] : i \in 1..Len(Kinds)}

EmptyCollection == [k \in KindSet |-> <<>>]

\* An identifier that is the same at every draw.
UuidFixed(d) == 100

\* Uuid::new_v4().to_string(), for the d-th draw
Uuid(d) == 100 + d

\* Password::new, ApiKey::new, ...: a fresh identifier and the creation time
NewSecret(d, name, secret, t) ==
    [id |-> Uuid(d), name |-> name, secret |-> secret, created_at |-> t]

\* serde_json::to_vec(&data): each kind in order, its length, its records
RECURSIVE SerRecords(_)
SerRecords(rs) ==
    IF Len(rs) = 0 THEN <<>>
    ELSE << rs[1].id, rs[1].name, rs[1].secret, rs[1].created_at >>
         \o SerRecords(Tail(rs))

RECURSIVE SerKinds(_, _)
SerKinds(c, i) ==
    IF i > Len(Kinds) THEN <<>>
    ELSE << Len(c[Kinds[i]]) >> \o SerRecords(c[Kinds[i]]) \o SerKinds(c, i + 1)

Serialize(c) == SerKinds(c, 1)

RECURSIVE ParseRecords(_, _)
ParseRecords(b, n) ==
    IF n = 0 THEN [ok |-> TRUE, recs |-> <<>>, rest |-> b]
    ELSE IF Len(b) < 4 THEN [ok |-> FALSE, recs |-> <<>>, rest |-> <<>>]
    ELSE LET r == ParseRecords(Drop(b, 4), n - 1)
         IN  [ok |-> r.ok,
              recs |-> << [id |-> b[1], name |-> b[2], secret |-> b[3],
                           created_at |-> b[4]] >> \o r.recs,
              rest |-> r.rest]

RECURSIVE ParseKinds(_, _)
ParseKinds(b, i) ==
    IF i > Len(Kinds) THEN [ok |-> TRUE, lists |-> <<>>, rest |-> b]
    ELSE IF Len(b) = 0 THEN [ok |-> FALSE, lists |-> <<>>, rest |-> <<>>]
    ELSE LET rs == ParseRecords(Tail(b), b[1])
         IN  IF ~rs.ok THEN [ok |-> FALSE, lists |-> <<>>, rest |-> <<>>]
             ELSE LET r == ParseKinds(rs.rest, i + 1)
                  IN  [ok |-> r.ok, lists |-> <<rs.recs>> \o r.lists,
                       rest |-> r.rest]

KindIndex(k) == CHOOSE i \in 1..Len(Kinds) : Kinds[i] = k

\* serde_json::from_slice(&decrypted)
Deserialize(b) ==
    LET p == ParseKinds(b, 1)
    IN  IF p.ok /\ Len(p.rest) = 0 /\ Len(p.lists) = Len(Kinds)
        THEN [ok |-> TRUE, data |-> [k \in KindSet |-> p.lists[KindIndex(k)]]]
        ELSE [ok |-> FALSE, data |-> EmptyCollection]

----------------------------------------------------------------------------
(* vault/storage.rs: the vault file *)

NoVault == [exists |-> FALSE, torn |-> FALSE, salt |-> <<>>, encrypted_data |-> <<>>]

\* What a write that failed after the file was truncated leaves behind.
TornVault == [exists |-> TRUE, torn |-> TRUE, salt |-> <<>>, encrypted_data |-> <<>>]

VaultFileOf(salt, encrypted_data) ==
    [exists |-> TRUE, torn |-> FALSE, salt |-> salt, encrypted_data |-> encrypted_data]

\* load_vault_file: read_to_string, then serde_json::from_str
LoadVaultFile(vf) ==
    IF ~vf.exists THEN "Io"
    ELSE IF vf.torn THEN "Json"
    ELSE "ok"

\* A save that writes a new file but never replaces an existing one.
SaveVaultFileCreateOnly(vf, new, io) ==
    IF vf.exists THEN vf
    ELSE IF io = "ok" THEN new
    ELSE IF io = "fail_open" THEN vf
    ELSE TornVault

\* A save that writes the new ciphertext but not the salt field.
SaveVaultFileNoSalt(vf, new, io) ==
    IF io = "ok" THEN [new EXCEPT !.salt = <<>>]
    ELSE IF io = "fail_open" THEN vf
    ELSE TornVault

\* save_vault_file: ensure_vault_dir, to_string_pretty, fs::write.  fs::write
\* creates or truncates the file and then writes: io tells whether it
\* succeeds, fails before the file is opened, or fails after truncation.
SaveVaultFile(vf, new, io) ==
    IF io = "ok" THEN new
    ELSE IF io = "fail_open" THEN vf
    ELSE TornVault

----------------------------------------------------------------------------
(* session/cache.rs *)

DEFAULT_TIMEOUT == 10   \* session/cache.rs:22
NoConfig == 0 - 1

\* The session file: form tells whether its content can be read as text and
\* parsed as a SessionData record.
NoSession == [exists |-> FALSE, form |-> "none", key_data |-> <<>>, expires_at |-> 0]

RECURSIVE XorBits(_, _, _)
XorBits(a, b, n) ==
    IF n = 0 THEN 0
    ELSE (((a % 2) + (b % 2)) % 2) + 2 * XorBits(a \div 2, b \div 2, n - 1)

\* The exclusive or of two half bytes, tabulated.
XorTable == [a \in 0..15 |-> [b \in 0..15 |-> XorBits(a, b, 4)]]

\* A byte combination that is not its own inverse.
XorAsSum(a, b) == (a + b) % 256

\* key[i] ^ machine_key[i]
Xor(a, b) == XorTable[a \div 16][b \div 16] * 16 + XorTable[a % 16][b % 16]

\* DefaultHasher over home directory, user name and a constant, as 8 bytes
MachineHash == <<61, 200, 7, 145, 90, 33, 254, 18>>

\* get_machine_key: the 8 hash bytes, four times over
GetMachineKey == [i \in 1..KEY_LEN |-> MachineHash[((i - 1) % 8) + 1]]

\* load_config: the stored configuration, or the default
LoadConfig(cf) == IF cf = NoConfig THEN DEFAULT_TIMEOUT ELSE cf

\* A save_session without the early return of a zero timeout.
SaveSessionAlways(sf, key, timeout_minutes, t) ==
    [exists |-> TRUE, form |-> "json",
     key_data |-> B64Encode([i \in 1..KEY_LEN |-> Xor(key[i], GetMachineKey[i])]),
     expires_at |-> t + timeout_minutes]

\* A save_session that stores the key without combining it with the
\* machine key.
SaveSessionPlain(sf, key, timeout_minutes, t) ==
    IF timeout_minutes = 0 THEN sf
    ELSE [exists |-> TRUE, form |-> "json",
          key_data |-> B64Encode(key),
          expires_at |-> t + timeout_minutes]

\* save_session: the session file after the call
SaveSession(sf, key, timeout_minutes, t) ==
    IF timeout_minutes = 0 THEN sf
    ELSE [exists |-> TRUE, form |-> "json",
          key_data |-> B64Encode([i \in 1..KEY_LEN |-> Xor(key[i], GetMachineKey[i])]),
          expires_at |-> t + timeout_minutes]

\* A clear_session that removes nothing.
ClearSessionNoop(sf) == sf

\* clear_session
ClearSession(sf) == NoSession

\* A get_cached_key that reports an expired record and leaves it on disk.
GetCachedKeyKeepsExpired(sf, t) ==
    IF ~sf.exists THEN [some |-> FALSE, key |-> <<>>, sess |-> sf]
    ELSE IF sf.form = "unreadable" THEN [some |-> FALSE, key |-> <<>>, sess |-> sf]
    ELSE IF sf.form = "not_json" THEN [some |-> FALSE, key |-> <<>>, sess |-> sf]
    ELSE IF sf.expires_at < t THEN
        [some |-> FALSE, key |-> <<>>, sess |-> sf]
    ELSE LET obfuscated == B64Decode(sf.key_data)
         IN  IF ~obfuscated.ok \/ Len(obfuscated.val) # KEY_LEN
             THEN [some |-> FALSE, key |-> <<>>, sess |-> sf]
             ELSE [some |-> TRUE,
                   key |-> [i \in 1..KEY_LEN |->
                               Xor(obfuscated.val[i], GetMachineKey[i])],
                   sess |-> sf]

\* A get_cached_key that does not look at expires_at.
GetCachedKeyNoExpiry(sf, t) ==
    IF ~sf.exists THEN [some |-> FALSE, key |-> <<>>, sess |-> sf]
    ELSE IF sf.form = "unreadable" THEN [some |-> FALSE, key |-> <<>>, sess |-> sf]
    ELSE IF sf.form = "not_json" THEN [some |-> FALSE, key |-> <<>>, sess |-> sf]
    ELSE LET obfuscated == B64Decode(sf.key_data)
         IN  IF ~obfuscated.ok \/ Len(obfuscated.val) # KEY_LEN
             THEN [some |-> FALSE, key |-> <<>>, sess |-> sf]
             ELSE [some |-> TRUE,
                   key |-> [i \in 1..KEY_LEN |->
                               Xor(obfuscated.val[i], GetMachineKey[i])],
                   sess |-> sf]

\* get_cached_key: the key if any, and the session file after the call
GetCachedKey(sf, t) ==
    IF ~sf.exists THEN [some |-> FALSE, key |-> <<>>, sess |-> sf]
    ELSE IF sf.form = "unreadable" THEN [some |-> FALSE, key |-> <<>>, sess |-> sf]
    ELSE IF sf.form = "not_json" THEN [some |-> FALSE, key |-> <<>>, sess |-> sf]
    ELSE IF sf.expires_at < t THEN
        [some |-> FALSE, key |-> <<>>, sess |-> ClearSession(sf)]
    ELSE LET obfuscated == B64Decode(sf.key_data)
         IN  IF ~obfuscated.ok \/ Len(obfuscated.val) # KEY_LEN
             THEN [some |-> FALSE, key |-> <<>>, sess |-> sf]
             ELSE [some |-> TRUE,
                   key |-> [i \in 1..KEY_LEN |->
                               Xor(obfuscated.val[i], GetMachineKey[i])],
                   sess |-> sf]

----------------------------------------------------------------------------
(* vault/mod.rs: the Vault object of one invocation *)

\* Vault::unlock(password): load the file, derive the key from the password
\* and the stored salt, decrypt, decode.  Every failure after the load is the
\* one generic outcome.
VaultUnlock(vf, log, password) ==
    LET fail(e) == [ok |-> FALSE, err |-> e, data |-> EmptyCollection, key |-> <<>>]
    IN  IF LoadVaultFile(vf) # "ok" THEN fail(LoadVaultFile(vf))
        ELSE LET k == DeriveKey(password, vf.salt)
             IN  IF ~k.ok THEN fail("InvalidPassword")
                 ELSE LET d == Decrypt(log, k.val, vf.encrypted_data)
                      IN  IF ~d.ok THEN fail("InvalidPassword")
                          ELSE LET c == Deserialize(d.val)
                               IN  IF ~c.ok THEN fail("InvalidPassword")
                                   ELSE [ok |-> TRUE, err |-> "none",
                                         data |-> c.data, key |-> k.val]

\* Vault::get_password, get_api_key, ...: the position in the list of the
\* record a token resolves to, 0 if none: identifiers first, then names,
\* the first match in list order.
Lookup(list, token) ==
    LET byId   == {i \in 1..Len(list) : list[i].id = token}
        byName == {i \in 1..Len(list) : list[i].name = token}
    IN  IF byId # {} THEN MinOf(byId)
        ELSE IF byName # {} THEN MinOf(byName)
        ELSE 0

RemoveAt(list, i) == Take(list, i - 1) \o Drop(list, i)

\* A forced initialization that leaves the session record alone.
InitForceSessionKept(sf) == sf

\* Vault::init_force(password): what it does to the session record, which
\* holds the key of the vault that is destroyed.
InitForceSession(sf) == ClearSession(sf)

\* Vault::save: serialize the collection, encrypt it under the key of this
\* invocation with a fresh nonce, and keep the salt.  The encrypt call made.
VaultSeal(log, d, key, data) == EncryptCall(log, d, key, Serialize(data))

\* No command has run yet.
NoLast ==
    [cmd |-> "none", outcome |-> "none", err |-> "none", exit |-> 0,
     prompted |-> FALSE, pw |-> <<>>, pre |-> NoVault, preSess |-> NoSession,
     unlocked |-> FALSE, seen |-> EmptyCollection,
     args |-> [kind |-> "none", name |-> 0, token |-> 0, id |-> 0]]

----------------------------------------------------------------------------
(* The cipher harness: encrypt, alter the blob, decrypt. *)

TestKey(i) == [j \in 1..KEY_LEN |-> 65 + i]
Keys == {TestKey(i) : i \in 1..NKeys}
PtByte(i) == (i * 85) % 256
Plaintexts == {[i \in 1..n |-> PtByte(i)] : n \in 0..MaxPtLen}

NoResult == [ok |-> FALSE, val |-> <<>>, err |-> "not-run"]

\* The invocations that can overlap.
Procs == {1, 2}

\* An invocation that has not started.
Idle ==
    [pc |-> "idle", cmd |-> "none", data |-> EmptyCollection, key |-> <<>>,
     loadedAt |-> 0, wroteAt |-> 0, written |-> EmptyCollection, id |-> 0,
     exit |-> 0]

Init ==
    /\ entropy = 0
    /\ encLog = <<>>
    /\ blob = <<>>
    /\ blobSrc = 0
    /\ tampered = "no"
    /\ dKey = TestKey(1)
    /\ result = NoResult
    /\ kdfLog = <<>>
    /\ saved = [key |-> <<>>, timeout_minutes |-> 0, at |-> 0]
    /\ inflight = [p \in Procs |-> Idle]
    /\ locked = FALSE
    /\ vaultFile = NoVault
    /\ sessionFile = NoSession
    /\ configFile = NoConfig
    /\ now = 0
    /\ master = <<>>
    /\ last = NoLast

CEncrypt ==
    \E key \in Keys, pt \in Plaintexts :
        /\ Len(encLog) < MaxEnc
        /\ LET e == EncryptCall(encLog, entropy, key, pt)
           IN  /\ encLog' = Append(encLog, e)
               /\ blob' = e.out
               /\ blobSrc' = Len(encLog) + 1
        /\ entropy' = entropy + 1
        /\ tampered' = "no"
        /\ result' = NoResult
        /\ UNCHANGED <<dKey, kdfLog, saved, inflight, locked, diskVars>>

\* Keep the first n bytes of the payload, re-encoded (a truncated blob that
\* is still valid base64).
CTruncate ==
    \E n \in {0, NONCE_SIZE - 1, NONCE_SIZE, NONCE_SIZE + TAG_SIZE - 1} :
        /\ blobSrc # 0 /\ tampered = "no"
        /\ LET bytes == B64Decode(blob).val
           IN  /\ n < Len(bytes)
               /\ blob' = B64Encode(Take(bytes, n))
        /\ tampered' = IF n < NONCE_SIZE THEN "short" ELSE "truncated"
        /\ result' = NoResult
        /\ UNCHANGED <<entropy, encLog, blobSrc, dKey, kdfLog, saved, inflight, locked, diskVars>>

\* Change one byte of the payload: in the nonce, the ciphertext or the tag.
CFlip ==
    \E i \in {1, NONCE_SIZE + 1, NONCE_SIZE + TAG_SIZE} :
        /\ blobSrc # 0 /\ tampered = "no"
        /\ LET bytes == B64Decode(blob).val
           IN  blob' = B64Encode([bytes EXCEPT ![i] = (bytes[i] + 1) % 256])
        /\ tampered' = "flipped"
        /\ result' = NoResult
        /\ UNCHANGED <<entropy, encLog, blobSrc, dKey, kdfLog, saved, inflight, locked, diskVars>>

\* Break the encoding: drop the last character, or put in a character that
\* is not in the alphabet.
CGarble ==
    \E how \in {"cut", "badchar"} :
        /\ blobSrc # 0 /\ tampered = "no"
        /\ blob' = IF how = "cut" THEN Take(blob, Len(blob) - 1)
                   ELSE [blob EXCEPT ![NONCE_SIZE + 2] = BADCHAR]
        /\ tampered' = "garbled"
        /\ result' = NoResult
        /\ UNCHANGED <<entropy, encLog, blobSrc, dKey, kdfLog, saved, inflight, locked, diskVars>>

CDecrypt ==
    \E key \in Keys :
        /\ blobSrc # 0
        /\ result.err = "not-run"
        /\ dKey' = key
        /\ result' = Decrypt(encLog, key, blob)
        /\ UNCHANGED <<entropy, encLog, blob, blobSrc, tampered, kdfLog, saved, inflight,
                       locked, diskVars>>

NextCipher == CEncrypt \/ CTruncate \/ CFlip \/ CGarble \/ CDecrypt

SpecCipher == Init /\ [][NextCipher]_vars

----------------------------------------------------------------------------
(* The key-derivation harness: derive keys for passwords and salts. *)

Passwords == {<<115>>, <<119>>, <<115, 119>>}
HarnessSalts == {GenerateSalt(d) : d \in 0..(NSalts - 1)}
                    \cup {<<>>, <<1, 2, 3, BADCHAR>>}

KDerive ==
    \E password \in Passwords, salt \in HarnessSalts :
        /\ Len(kdfLog) < MaxKdf
        /\ kdfLog' = Append(kdfLog, [password |-> password, salt |-> salt,
                                     res |-> DeriveKey(password, salt)])
        /\ UNCHANGED <<entropy, encLog, cipherVars, saved, inflight, locked, diskVars>>

NextKdf == KDerive

SpecKdf == Init /\ [][NextKdf]_vars

----------------------------------------------------------------------------
(* commands/*.rs: one action per command invocation *)

\* What is typed at a password prompt, and what init is given as the new
\* master password.
VaultPasswords == {<<115>>, <<119>>}
InitPasswords == {<<115>>}
EMPTY == 0                  \* the empty string, as a name or a secret value
Names == {1, 2}
SecretValue == 9
AddChoices == {<<"passwords", 1>>, <<"passwords", 2>>, <<"tokens", 1>>}
AddKinds == {c[1] : c \in AddChoices}

Report(cmd, outcome, err, exit, prompted, pw, unlocked, seen, args) ==
    [cmd |-> cmd, outcome |-> outcome, err |-> err, exit |-> exit,
     prompted |-> prompted, pw |-> IF prompted THEN pw ELSE <<>>,
     pre |-> vaultFile, preSess |-> sessionFile, unlocked |-> unlocked,
     seen |-> seen, args |-> args]

\* An ensure_unlocked that does not look for the vault file first.
EnsureUnlockedUnchecked(vf, sf, cf, t, log, pw) ==
    LET fail(e, p, s) == [ok |-> FALSE, err |-> e, data |-> EmptyCollection,
                          key |-> <<>>, prompted |-> p, sess |-> s]
    IN  IF FALSE THEN fail("NotInitialized", FALSE, sf)
        ELSE LET c == GetCachedKey(sf, t)
             IN  IF c.some THEN
                     IF LoadVaultFile(vf) # "ok"
                     THEN fail(LoadVaultFile(vf), FALSE, c.sess)
                     ELSE LET d == Decrypt(log, c.key, vf.encrypted_data)
                          IN  IF ~d.ok THEN fail("SessionExpiredOrCorrupted", FALSE, c.sess)
                              ELSE LET p == Deserialize(d.val)
                                   IN  IF ~p.ok THEN fail("Json", FALSE, c.sess)
                                       ELSE [ok |-> TRUE, err |-> "none",
                                             data |-> p.data, key |-> c.key,
                                             prompted |-> FALSE, sess |-> c.sess]
                 ELSE LET u == VaultUnlock(vf, log, pw)
                      IN  IF ~u.ok THEN fail(u.err, TRUE, c.sess)
                          ELSE [ok |-> TRUE, err |-> "none", data |-> u.data,
                                key |-> u.key, prompted |-> TRUE,
                                sess |-> IF LoadConfig(cf) > 0
                                         THEN SaveSession(c.sess,
                                                  DeriveKey(pw, vf.salt).val,
                                                  LoadConfig(cf), t)
                                         ELSE c.sess]

\* An ensure_unlocked that treats a session file without a usable key as an
\* error.
EnsureUnlockedStrict(vf, sf, cf, t, log, pw) ==
    LET fail(e, p, s) == [ok |-> FALSE, err |-> e, data |-> EmptyCollection,
                          key |-> <<>>, prompted |-> p, sess |-> s]
    IN  IF ~vf.exists THEN fail("NotInitialized", FALSE, sf)
        ELSE LET c == GetCachedKey(sf, t)
             IN  IF c.some THEN
                     IF LoadVaultFile(vf) # "ok"
                     THEN fail(LoadVaultFile(vf), FALSE, c.sess)
                     ELSE LET d == Decrypt(log, c.key, vf.encrypted_data)
                          IN  IF ~d.ok THEN fail("SessionExpiredOrCorrupted", FALSE, c.sess)
                              ELSE LET p == Deserialize(d.val)
                                   IN  IF ~p.ok THEN fail("Json", FALSE, c.sess)
                                       ELSE [ok |-> TRUE, err |-> "none",
                                             data |-> p.data, key |-> c.key,
                                             prompted |-> FALSE, sess |-> c.sess]
                 ELSE IF sf.exists
                      THEN fail("SessionExpiredOrCorrupted", FALSE, c.sess)
                 ELSE LET u == VaultUnlock(vf, log, pw)
                      IN  IF ~u.ok THEN fail(u.err, TRUE, c.sess)
                          ELSE [ok |-> TRUE, err |-> "none", data |-> u.data,
                                key |-> u.key, prompted |-> TRUE,
                                sess |-> IF LoadConfig(cf) > 0
                                         THEN SaveSession(c.sess,
                                                  DeriveKey(pw, vf.salt).val,
                                                  LoadConfig(cf), t)
                                         ELSE c.sess]

\* An ensure_unlocked that saves the session before Vault::unlock has
\* accepted the password.
EnsureUnlockedEagerSave(vf, sf, cf, t, log, pw) ==
    LET fail(e, p, s) == [ok |-> FALSE, err |-> e, data |-> EmptyCollection,
                          key |-> <<>>, prompted |-> p, sess |-> s]
    IN  IF ~vf.exists THEN fail("NotInitialized", FALSE, sf)
        ELSE LET c == GetCachedKey(sf, t)
             IN  IF c.some THEN
                     IF LoadVaultFile(vf) # "ok"
                     THEN fail(LoadVaultFile(vf), FALSE, c.sess)
                     ELSE LET d == Decrypt(log, c.key, vf.encrypted_data)
                          IN  IF ~d.ok THEN fail("SessionExpiredOrCorrupted", FALSE, c.sess)
                              ELSE LET p == Deserialize(d.val)
                                   IN  IF ~p.ok THEN fail("Json", FALSE, c.sess)
                                       ELSE [ok |-> TRUE, err |-> "none",
                                             data |-> p.data, key |-> c.key,
                                             prompted |-> FALSE, sess |-> c.sess]
                 ELSE LET u == VaultUnlock(vf, log, pw)
                          k == DeriveKey(pw, vf.salt)
                          s == IF LoadConfig(cf) > 0 /\ k.ok
                               THEN SaveSession(c.sess, k.val, LoadConfig(cf), t)
                               ELSE c.sess
                      IN  IF ~u.ok THEN fail(u.err, TRUE, s)
                          ELSE [ok |-> TRUE, err |-> "none", data |-> u.data,
                                key |-> u.key, prompted |-> TRUE, sess |-> s]

\* commands/lock.rs: ensure_unlocked.  pw is what the password prompt
\* returns if it is reached.
EnsureUnlocked(vf, sf, cf, t, log, pw) ==
    LET fail(e, p, s) == [ok |-> FALSE, err |-> e, data |-> EmptyCollection,
                          key |-> <<>>, prompted |-> p, sess |-> s]
    IN  IF ~vf.exists THEN fail("NotInitialized", FALSE, sf)
        ELSE LET c == GetCachedKey(sf, t)
             IN  IF c.some THEN
                     IF LoadVaultFile(vf) # "ok"
                     THEN fail(LoadVaultFile(vf), FALSE, c.sess)
                     ELSE LET d == Decrypt(log, c.key, vf.encrypted_data)
                          IN  IF ~d.ok THEN fail("SessionExpiredOrCorrupted", FALSE, c.sess)
                              ELSE LET p == Deserialize(d.val)
                                   IN  IF ~p.ok THEN fail("Json", FALSE, c.sess)
                                       ELSE [ok |-> TRUE, err |-> "none",
                                             data |-> p.data, key |-> c.key,
                                             prompted |-> FALSE, sess |-> c.sess]
                 ELSE LET u == VaultUnlock(vf, log, pw)
                      IN  IF ~u.ok THEN fail(u.err, TRUE, c.sess)
                          ELSE [ok |-> TRUE, err |-> "none", data |-> u.data,
                                key |-> u.key, prompted |-> TRUE,
                                sess |-> IF LoadConfig(cf) > 0
                                         THEN SaveSession(c.sess,
                                                  DeriveKey(pw, vf.salt).val,
                                                  LoadConfig(cf), t)
                                         ELSE c.sess]

\* commands/add.rs: refresh_session; sio tells whether the write succeeds.
RefreshSession(sf, cf, t, sio) ==
    LET c == GetCachedKey(sf, t)
    IN  IF c.some /\ LoadConfig(cf) > 0
        THEN IF sio = "ok"
             THEN [ok |-> TRUE, sess |-> SaveSession(c.sess, c.key, LoadConfig(cf), t)]
             ELSE [ok |-> FALSE, sess |-> c.sess]
        ELSE [ok |-> TRUE, sess |-> c.sess]

\* commands/delete.rs: the kind the existence check finds, 0 if none
SecretTypeOf(data, token) ==
    IF Lookup(data["passwords"], token) # 0 THEN 1
    ELSE IF Lookup(data["api_keys"], token) # 0 THEN 2
    ELSE IF Lookup(data["notes"], token) # 0 THEN 3
    ELSE IF Lookup(data["db_credentials"], token) # 0 THEN 4
    ELSE IF Lookup(data["tokens"], token) # 0 THEN 5
    ELSE 0

\* A deletion that looks for the record in the kinds in another order.
DeleteKindOfReversed(data, token) ==
    IF Lookup(data["tokens"], token) # 0 THEN 5
    ELSE IF Lookup(data["db_credentials"], token) # 0 THEN 4
    ELSE IF Lookup(data["notes"], token) # 0 THEN 3
    ELSE IF Lookup(data["api_keys"], token) # 0 THEN 2
    ELSE IF Lookup(data["passwords"], token) # 0 THEN 1
    ELSE 0

\* commands/delete.rs: the kind the deletion acts on, 0 if none
DeleteKindOf(data, token) ==
    IF Lookup(data["passwords"], token) # 0 THEN 1
    ELSE IF Lookup(data["api_keys"], token) # 0 THEN 2
    ELSE IF Lookup(data["notes"], token) # 0 THEN 3
    ELSE IF Lookup(data["db_credentials"], token) # 0 THEN 4
    ELSE IF Lookup(data["tokens"], token) # 0 THEN 5
    ELSE 0

\* The vaults created so far: each init derives a key from a fresh salt.
InitCount == Cardinality({encLog[i].key : i \in 1..Len(encLog)})

NoArgs == [kind |-> "none", name |-> EMPTY, token |-> EMPTY, id |-> 0]

\* What init was given: --force, and the answer to the confirmation
\* prompt if it was asked.
InitArgs(force, confirm) ==
    [kind |-> "none", name |-> EMPTY, token |-> EMPTY, id |-> 0,
     force |-> force, confirmed |-> vaultFile.exists /\ force /\ confirm]

\* An init that replaces an existing vault without asking.
InitCmdUnconfirmed(force, confirm, password, io) ==
    /\ IF vaultFile.exists /\ ~force THEN
           /\ last' = Report("init", "already-exists", "AlreadyExists", 0, FALSE,
                             password, FALSE, EmptyCollection, InitArgs(force, confirm))
           /\ UNCHANGED <<entropy, encLog, vaultFile, sessionFile, master>>
       ELSE
           LET salt == GenerateSalt(entropy)
               key  == DeriveKey(password, salt)
               e    == VaultSeal(encLog, entropy + 1, key.val, EmptyCollection)
           IN  /\ Len(encLog) < MaxWrites
               /\ InitCount < MaxInits
               /\ entropy' = entropy + 2
               /\ encLog' = Append(encLog, e)
               /\ vaultFile' = SaveVaultFile(vaultFile, VaultFileOf(salt, e.out), io)
               /\ sessionFile' = IF force THEN InitForceSession(sessionFile)
                                 ELSE sessionFile
               /\ master' = IF io = "ok" THEN password ELSE master
               /\ last' = IF io = "ok"
                          THEN Report("init", "initialized", "none", 0, TRUE,
                                      password, FALSE, EmptyCollection, InitArgs(force, confirm))
                          ELSE Report("init", "failed", "Io", 1, TRUE,
                                      password, FALSE, EmptyCollection, InitArgs(force, confirm))
    /\ UNCHANGED <<harnessVars, configFile, now>>

\* commands/init.rs: run(force), with Vault::init and Vault::init_force
InitCmd(force, confirm, password, io) ==
    /\ IF vaultFile.exists /\ ~force THEN
           /\ last' = Report("init", "already-exists", "AlreadyExists", 0, FALSE,
                             password, FALSE, EmptyCollection, InitArgs(force, confirm))
           /\ UNCHANGED <<entropy, encLog, vaultFile, sessionFile, master>>
       ELSE IF vaultFile.exists /\ force /\ ~confirm THEN
           /\ last' = Report("init", "aborted", "none", 0, FALSE,
                             password, FALSE, EmptyCollection, InitArgs(force, confirm))
           /\ UNCHANGED <<entropy, encLog, vaultFile, sessionFile, master>>
       ELSE
           LET salt == GenerateSalt(entropy)
               key  == DeriveKey(password, salt)
               e    == VaultSeal(encLog, entropy + 1, key.val, EmptyCollection)
           IN  /\ Len(encLog) < MaxWrites
               /\ InitCount < MaxInits
               /\ entropy' = entropy + 2
               /\ encLog' = Append(encLog, e)
               /\ vaultFile' = SaveVaultFile(vaultFile, VaultFileOf(salt, e.out), io)
               /\ sessionFile' = IF force THEN InitForceSession(sessionFile)
                                 ELSE sessionFile
               /\ master' = IF io = "ok" THEN password ELSE master
               /\ last' = IF io = "ok"
                          THEN Report("init", "initialized", "none", 0, TRUE,
                                      password, FALSE, EmptyCollection, InitArgs(force, confirm))
                          ELSE Report("init", "failed", "Io", 1, TRUE,
                                      password, FALSE, EmptyCollection, InitArgs(force, confirm))
    /\ UNCHANGED <<harnessVars, configFile, now>>

NoTimeoutArg == 0 - 1

\* What unlock was given: --timeout, or NoTimeoutArg.
UnlockArgs(timeout) ==
    [kind |-> "none", name |-> EMPTY, token |-> EMPTY, id |-> 0,
     timeout |-> timeout]

\* commands/lock.rs: unlock(timeout)
UnlockCmd(timeout, password) ==
    /\ IF ~vaultFile.exists THEN
           /\ last' = Report("unlock", "not-initialized", "NotInitialized", 0, FALSE,
                             password, FALSE, EmptyCollection, UnlockArgs(timeout))
           /\ UNCHANGED sessionFile
       ELSE
           LET timeout_minutes == IF timeout = NoTimeoutArg
                                  THEN LoadConfig(configFile) ELSE timeout
               c == GetCachedKey(sessionFile, now)
               u == VaultUnlock(vaultFile, encLog, password)
           IN  IF c.some THEN
                   /\ last' = Report("unlock", "already-unlocked", "none", 0, FALSE,
                                     password, FALSE, EmptyCollection, UnlockArgs(timeout))
                   /\ sessionFile' = c.sess
               ELSE IF u.ok THEN
                   /\ last' = Report("unlock", "unlocked", "none", 0, TRUE,
                                     password, TRUE, u.data, UnlockArgs(timeout))
                   /\ sessionFile' =
                         IF timeout_minutes > 0
                         THEN SaveSession(c.sess, DeriveKey(password, vaultFile.salt).val,
                                          timeout_minutes, now)
                         ELSE c.sess
               ELSE
                   /\ last' = Report("unlock", "unlock-failed", u.err, 0, TRUE,
                                     password, FALSE, EmptyCollection, UnlockArgs(timeout))
                   /\ sessionFile' = c.sess
    /\ UNCHANGED <<entropy, encLog, harnessVars, vaultFile, configFile, now, master>>

\* commands/lock.rs: lock()
LockCmd ==
    /\ sessionFile' = ClearSession(sessionFile)
    /\ last' = Report("lock", "locked", "none", 0, FALSE, <<>>, FALSE,
                      EmptyCollection, NoArgs)
    /\ UNCHANGED <<entropy, encLog, harnessVars, vaultFile, configFile, now, master>>

\* commands/list.rs: run(filter)
ListCmd(eu, password) ==
        /\ sessionFile' = eu.sess
        /\ last' = IF eu.ok
                   THEN Report("list", "listed", "none", 0, eu.prompted, password,
                               TRUE, eu.data, NoArgs)
                   ELSE Report("list", "failed", eu.err, 1, eu.prompted, password,
                               FALSE, EmptyCollection, NoArgs)
        /\ UNCHANGED <<entropy, encLog, harnessVars, vaultFile, configFile, now, master>>

\* An add that refreshes the session before it validates the fields.
AddCmdEagerRefresh(eu, kind, name, secret, password, io, sio) ==
    LET rec == NewSecret(entropy, name, secret, now)
        data == [eu.data EXCEPT ![kind] = Append(@, rec)]
        e == VaultSeal(encLog, entropy + 1, eu.key, data)
        rs == RefreshSession(eu.sess, configFile, now, sio)
        args == [kind |-> kind, name |-> name, token |-> EMPTY, id |-> rec.id]
    IN  /\ Len(encLog) < MaxWrites
        /\ IF ~eu.ok THEN
               /\ last' = Report("add", "failed", eu.err, 1, eu.prompted, password,
                                 FALSE, EmptyCollection, NoArgs)
               /\ sessionFile' = eu.sess
               /\ UNCHANGED <<entropy, encLog, vaultFile>>
           ELSE IF name = EMPTY \/ secret = EMPTY THEN
               /\ last' = Report("add", "rejected", "Required", 0, eu.prompted, password,
                                 TRUE, eu.data, NoArgs)
               /\ sessionFile' = rs.sess
               /\ UNCHANGED <<entropy, encLog, vaultFile>>
           ELSE
               /\ entropy' = entropy + 2
               /\ encLog' = Append(encLog, e)
               /\ vaultFile' = SaveVaultFile(vaultFile,
                                   VaultFileOf(vaultFile.salt, e.out), io)
               /\ IF io # "ok" THEN
                      /\ last' = Report("add", "failed", "Io", 1, eu.prompted, password,
                                        TRUE, eu.data, args)
                      /\ sessionFile' = eu.sess
                  ELSE
                      /\ last' = IF rs.ok
                                 THEN Report("add", "added", "none", 0, eu.prompted,
                                             password, TRUE, eu.data, args)
                                 ELSE Report("add", "failed", "Io", 1, eu.prompted,
                                             password, TRUE, eu.data, args)
                      /\ sessionFile' = rs.sess
        /\ UNCHANGED <<harnessVars, configFile, now, master>>

\* commands/add.rs: run(secret_type) with add_password, add_api_key, ...
AddCmd(eu, kind, name, secret, password, io, sio) ==
    LET rec == NewSecret(entropy, name, secret, now)
        data == [eu.data EXCEPT ![kind] = Append(@, rec)]
        e == VaultSeal(encLog, entropy + 1, eu.key, data)
        rs == RefreshSession(eu.sess, configFile, now, sio)
        args == [kind |-> kind, name |-> name, token |-> EMPTY, id |-> rec.id]
    IN  /\ Len(encLog) < MaxWrites
        /\ IF ~eu.ok THEN
               /\ last' = Report("add", "failed", eu.err, 1, eu.prompted, password,
                                 FALSE, EmptyCollection, NoArgs)
               /\ sessionFile' = eu.sess
               /\ UNCHANGED <<entropy, encLog, vaultFile>>
           ELSE IF name = EMPTY \/ secret = EMPTY THEN
               /\ last' = Report("add", "rejected", "Required", 0, eu.prompted, password,
                                 TRUE, eu.data, NoArgs)
               /\ sessionFile' = eu.sess
               /\ UNCHANGED <<entropy, encLog, vaultFile>>
           ELSE
               /\ entropy' = entropy + 2
               /\ encLog' = Append(encLog, e)
               /\ vaultFile' = SaveVaultFile(vaultFile,
                                   VaultFileOf(vaultFile.salt, e.out), io)
               /\ IF io # "ok" THEN
                      /\ last' = Report("add", "failed", "Io", 1, eu.prompted, password,
                                        TRUE, eu.data, args)
                      /\ sessionFile' = eu.sess
                  ELSE
                      /\ last' = IF rs.ok
                                 THEN Report("add", "added", "none", 0, eu.prompted,
                                             password, TRUE, eu.data, args)
                                 ELSE Report("add", "failed", "Io", 1, eu.prompted,
                                             password, TRUE, eu.data, args)
                      /\ sessionFile' = rs.sess
        /\ UNCHANGED <<harnessVars, configFile, now, master>>

\* commands/delete.rs: run(id_or_name, force); confirm is "force" with
\* --force, else the answer to the confirmation prompt.
DeleteCmd(eu, token, confirm, password, io) ==
    LET found == SecretTypeOf(eu.data, token)
        k == DeleteKindOf(eu.data, token)
        kind == Kinds[k]
        idx == Lookup(eu.data[kind], token)
        data == [eu.data EXCEPT ![kind] = RemoveAt(@, idx)]
        e == VaultSeal(encLog, entropy, eu.key, data)
        args == [kind |-> kind, name |-> eu.data[kind][idx].name,
                 token |-> token, id |-> eu.data[kind][idx].id]
    IN  /\ Len(encLog) < MaxWrites
        /\ IF ~eu.ok THEN
               /\ last' = Report("delete", "failed", eu.err, 1, eu.prompted, password,
                                 FALSE, EmptyCollection, NoArgs)
               /\ sessionFile' = eu.sess
               /\ UNCHANGED <<entropy, encLog, vaultFile>>
           ELSE IF found = 0 THEN
               /\ last' = Report("delete", "not-found", "NotFound", 0, eu.prompted,
                                 password, TRUE, eu.data,
                                 [NoArgs EXCEPT !.token = token])
               /\ sessionFile' = eu.sess
               /\ UNCHANGED <<entropy, encLog, vaultFile>>
           ELSE IF confirm = "no" \/ k = 0 THEN
               /\ last' = Report("delete", "aborted", "none", 0, eu.prompted,
                                 password, TRUE, eu.data,
                                 [NoArgs EXCEPT !.token = token])
               /\ sessionFile' = eu.sess
               /\ UNCHANGED <<entropy, encLog, vaultFile>>
           ELSE
               /\ entropy' = entropy + 1
               /\ encLog' = Append(encLog, e)
               /\ vaultFile' = SaveVaultFile(vaultFile,
                                   VaultFileOf(vaultFile.salt, e.out), io)
               /\ last' = IF io = "ok"
                          THEN Report("delete", "deleted", "none", 0, eu.prompted,
                                      password, TRUE, eu.data, args)
                          ELSE Report("delete", "failed", "Io", 1, eu.prompted,
                                      password, TRUE, eu.data, args)
               /\ sessionFile' = eu.sess
        /\ UNCHANGED <<harnessVars, configFile, now, master>>

\* A get that looks for the record in the kinds in another order.
GetKindOfReversed(data, token) ==
    IF Lookup(data["tokens"], token) # 0 THEN 5
    ELSE IF Lookup(data["db_credentials"], token) # 0 THEN 4
    ELSE IF Lookup(data["notes"], token) # 0 THEN 3
    ELSE IF Lookup(data["api_keys"], token) # 0 THEN 2
    ELSE IF Lookup(data["passwords"], token) # 0 THEN 1
    ELSE 0

\* commands/get.rs: the kind whose record get displays, 0 if none
GetKindOf(data, token) ==
    IF Lookup(data["passwords"], token) # 0 THEN 1
    ELSE IF Lookup(data["api_keys"], token) # 0 THEN 2
    ELSE IF Lookup(data["notes"], token) # 0 THEN 3
    ELSE IF Lookup(data["db_credentials"], token) # 0 THEN 4
    ELSE IF Lookup(data["tokens"], token) # 0 THEN 5
    ELSE 0

\* commands/get.rs: run(id_or_name, copy), without the clipboard
GetCmd(eu, token, password) ==
    LET k == GetKindOf(eu.data, token)
        kind == Kinds[k]
        idx == Lookup(eu.data[kind], token)
    IN  /\ sessionFile' = eu.sess
        /\ last' = IF ~eu.ok
                   THEN Report("get", "failed", eu.err, 1, eu.prompted, password,
                               FALSE, EmptyCollection, NoArgs)
                   ELSE IF k = 0
                   THEN Report("get", "not-found", "NotFound", 0, eu.prompted,
                               password, TRUE, eu.data,
                               [NoArgs EXCEPT !.token = token])
                   ELSE Report("get", "shown", "none", 0, eu.prompted, password,
                               TRUE, eu.data,
                               [kind |-> kind, name |-> eu.data[kind][idx].name,
                                token |-> token, id |-> eu.data[kind][idx].id])
        /\ UNCHANGED <<entropy, encLog, harnessVars, vaultFile, configFile, now, master>>

\* commands/config.rs: run(timeout, show)
ConfigCmd(timeout, show) ==
    /\ configFile' = IF ~show /\ timeout # NoTimeoutArg THEN timeout
                     ELSE configFile
    /\ last' = Report("config",
                      IF show THEN "shown"
                      ELSE IF timeout # NoTimeoutArg THEN "saved" ELSE "usage",
                      "none", 0, FALSE, <<>>, FALSE, EmptyCollection, NoArgs)
    /\ UNCHANGED <<entropy, encLog, harnessVars, vaultFile, sessionFile, now, master>>

\* Utc::now() between two invocations: a minute passes.
ClockTick ==
    /\ now < MaxNow
    /\ now' = now + 1
    /\ last' = Report("tick", "none", "none", 0, FALSE, <<>>, FALSE,
                      EmptyCollection, NoArgs)
    /\ UNCHANGED <<entropy, encLog, harnessVars, vaultFile, sessionFile,
                   configFile, master>>

\* What a fresh unlock with the master password decodes from the vault file.
Stored == VaultUnlock(vaultFile, encLog, master)

\* The vault as ensure_unlocked returns it in the current state.
Unlocked(password) ==
    {EnsureUnlocked(vaultFile, sessionFile, configFile, now, encLog, password)}

\* Tokens worth trying on a collection: the names, and its identifiers.
Tokens(data) ==
    Names \cup UNION {{data[k][i].id : i \in 1..Len(data[k])} : k \in KindSet}

Initialize ==
    \E force \in BOOLEAN, confirm \in BOOLEAN, password \in InitPasswords :
        InitCmd(force, confirm, password, "ok")

Unlock ==
    \E timeout \in {NoTimeoutArg, 0}, password \in VaultPasswords :
        UnlockCmd(timeout, password)

Lock == LockCmd

List ==
    \E password \in VaultPasswords : \E eu \in Unlocked(password) :
        ListCmd(eu, password)

\* What the prompts of add return, as far as they are reached: none when
\* the vault did not unlock, no secret value after an empty name.
AddInputs(eu) ==
    IF ~eu.ok THEN {<<"passwords", EMPTY, EMPTY>>}
    ELSE {<<c[1], c[2], SecretValue>> : c \in AddChoices}
            \cup {<<kind, EMPTY, EMPTY>> : kind \in AddKinds}
            \cup {<<kind, 1, EMPTY>> : kind \in AddKinds}

\* The token and the confirmation of delete, as far as they are used.
DeleteInputs(eu) ==
    IF ~eu.ok THEN {<<EMPTY, "force">>}
    ELSE Tokens(eu.data) \X {"yes", "no"}

Add ==
    \E password \in VaultPasswords : \E eu \in Unlocked(password) :
        \E in \in AddInputs(eu) :
            AddCmd(eu, in[1], in[2], in[3], password, "ok", "ok")

Delete ==
    \E password \in VaultPasswords : \E eu \in Unlocked(password) :
        \E in \in DeleteInputs(eu) :
            DeleteCmd(eu, in[1], in[2], password, "ok")

\* The token of get: a name or an identifier, in use or not.
GetInputs(eu) ==
    IF ~eu.ok THEN {EMPTY} ELSE Tokens(eu.data)

Get ==
    \E password \in VaultPasswords : \E eu \in Unlocked(password) :
        \E token \in GetInputs(eu) :
            GetCmd(eu, token, password)

Next == Initialize \/ Unlock \/ Lock \/ List \/ Add \/ Delete

Spec == Init /\ [][Next]_vars

\* The identifiers of the records of a collection.
Ids(data) == UNION {{data[k][i].id : i \in 1..Len(data[k])} : k \in KindSet}

\* An add whose name prompt is answered with the identifier that list shows
\* for an existing record: a name is any text.
AddNamedLikeId ==
    \E password \in InitPasswords : \E eu \in Unlocked(password) :
        \E name \in Ids(eu.data) :
            AddCmd(eu, "passwords", name, SecretValue, password, "ok", "ok")

\* The commands that read or change the collection, without lock and unlock.
NextGet == Initialize \/ List \/ Get \/ Add \/ AddNamedLikeId \/ Delete

SpecGet == Init /\ [][NextGet]_vars

\* The commands with a clock and a configurable timeout, the master password
\* typed correctly at every prompt.
TimedInit ==
    /\ Len(encLog) < MaxTimedWrites
    /\ \E force \in BOOLEAN, password \in InitPasswords :
           InitCmd(force, TRUE, password, "ok")

TimedUnlock == \E password \in InitPasswords : UnlockCmd(NoTimeoutArg, password)

TimedList ==
    \E password \in InitPasswords : \E eu \in Unlocked(password) :
        ListCmd(eu, password)

TimedAdd ==
    /\ Len(encLog) < MaxTimedWrites
    /\ \E password \in InitPasswords : \E eu \in Unlocked(password) :
           AddCmd(eu, "passwords", 1, SecretValue, password, "ok", "ok")

TimedDelete ==
    /\ Len(encLog) < MaxTimedWrites
    /\ \E password \in InitPasswords : \E eu \in Unlocked(password) :
           DeleteCmd(eu, 1, "force", password, "ok")

Config ==
    \E timeout \in {NoTimeoutArg, 0, 1}, show \in BOOLEAN :
        ConfigCmd(timeout, show)

Tick == ClockTick

NextTimed ==
    \/ TimedInit \/ TimedUnlock \/ Lock \/ TimedList \/ TimedAdd
    \/ TimedDelete \/ Config \/ Tick

SpecTimed == Init /\ [][NextTimed]_vars

----------------------------------------------------------------------------
(* The session harness: save_session, get_cached_key and the clock. *)

SSave ==
    \E key \in Keys \cup {DeriveKey(<<115>>, GenerateSalt(0)).val},
       timeout_minutes \in {0, 1, 2} :
        /\ sessionFile' = SaveSession(sessionFile, key, timeout_minutes, now)
        /\ saved' = [key |-> key, timeout_minutes |-> timeout_minutes, at |-> now]
        /\ result' = Ok(<<>>)
        /\ last' = Report("save_session", "ok", "none", 0, FALSE, <<>>, FALSE,
                          EmptyCollection, NoArgs)
        /\ UNCHANGED <<entropy, encLog, blob, blobSrc, tampered, dKey, kdfLog,
                       inflight, locked, vaultFile, configFile, now, master>>

SGet ==
    LET c == GetCachedKey(sessionFile, now)
    IN  /\ sessionFile' = c.sess
        /\ result' = IF c.some THEN Ok(c.key) ELSE Err("None")
        /\ last' = Report("get_cached_key", IF c.some THEN "some" ELSE "none",
                          "none", 0, FALSE, <<>>, FALSE, EmptyCollection, NoArgs)
        /\ UNCHANGED <<entropy, encLog, blob, blobSrc, tampered, dKey, kdfLog,
                       saved, inflight, locked, vaultFile, configFile, now, master>>

NextSession == SSave \/ SGet \/ Tick

SpecSession == Init /\ [][NextSession]_vars

----------------------------------------------------------------------------
(* The commands on a disk whose session file and vault file can be damaged
   between two invocations. *)

\* A session file after damage: content that cannot be read as text, content
\* that is not a SessionData record, key_data of 30 bytes, key_data with a
\* character outside the alphabet, key_data of 32 other bytes.
DamagedSession(sf, how) ==
    LET bytes == B64Decode(sf.key_data).val
    IN  IF how = "unreadable" \/ how = "not_json"
        THEN [exists |-> TRUE, form |-> how, key_data |-> <<>>, expires_at |-> 0]
        ELSE IF how = "short"
        THEN [sf EXCEPT !.key_data = B64Encode(Take(bytes, KEY_LEN - 2))]
        ELSE IF how = "not_base64"
        THEN [sf EXCEPT !.key_data = [@ EXCEPT ![1] = BADCHAR]]
        ELSE [sf EXCEPT !.key_data =
                 B64Encode([bytes EXCEPT ![1] = (bytes[1] + 1) % 256])]

\* A session record as save_session writes it.
WellFormed(sf) ==
    /\ sf.exists /\ sf.form = "json"
    /\ B64Decode(sf.key_data).ok
    /\ Len(B64Decode(sf.key_data).val) = KEY_LEN

\* The session record holds a key some vault file was written under.
AsSaved(sf) ==
    /\ WellFormed(sf)
    /\ \E i \in 1..Len(encLog) :
           sf.key_data = SaveSession(sf, encLog[i].key, 1, 0).key_data

DamageSession ==
    \E how \in {"unreadable", "not_json", "short", "not_base64", "wrong_key"} :
        /\ AsSaved(sessionFile)
        /\ sessionFile' = DamagedSession(sessionFile, how)
        /\ last' = Report("damage-session", how, "none", 0, FALSE, <<>>, FALSE,
                          EmptyCollection, NoArgs)
        /\ UNCHANGED <<entropy, encLog, harnessVars, vaultFile, configFile,
                       now, master>>

\* A salt that SaltString::from_b64 rejects: too short, or with a character
\* outside the alphabet.
DamagedSalt(salt, how) ==
    IF how = "short" THEN Take(salt, SALT_MIN - 1)
    ELSE [salt EXCEPT ![1] = BADCHAR]

DamageSalt ==
    \E how \in {"short", "badchar"} :
        /\ vaultFile.exists /\ ~vaultFile.torn
        /\ SaltFromB64(vaultFile.salt)
        /\ vaultFile' = [vaultFile EXCEPT !.salt = DamagedSalt(@, how)]
        /\ last' = Report("damage-salt", how, "none", 0, FALSE, <<>>, FALSE,
                          EmptyCollection, NoArgs)
        /\ UNCHANGED <<entropy, encLog, harnessVars, sessionFile, configFile,
                       now, master>>

\* One byte of the stored ciphertext is changed.
DamageData ==
    /\ vaultFile.exists /\ ~vaultFile.torn
    /\ \E i \in 1..Len(encLog) : encLog[i].out = vaultFile.encrypted_data
    /\ LET bytes == B64Decode(vaultFile.encrypted_data).val
       IN  vaultFile' = [vaultFile EXCEPT !.encrypted_data =
               B64Encode([bytes EXCEPT ![NONCE_SIZE + 1] = (@ + 1) % 256])]
    /\ last' = Report("damage-data", "flipped", "none", 0, FALSE, <<>>, FALSE,
                      EmptyCollection, NoArgs)
    /\ UNCHANGED <<entropy, encLog, harnessVars, sessionFile, configFile,
                   now, master>>

FaultInit == \E password \in InitPasswords : InitCmd(FALSE, TRUE, password, "ok")

FaultUnlock ==
    \E timeout \in {NoTimeoutArg, 0, 1}, password \in VaultPasswords :
        UnlockCmd(timeout, password)

FaultAdd ==
    /\ Len(encLog) < MaxFaultWrites
    /\ \E password \in VaultPasswords : \E eu \in Unlocked(password) :
           AddCmd(eu, "passwords", 1, SecretValue, password, "ok", "ok")

NextFault ==
    \/ FaultInit \/ FaultUnlock \/ Lock \/ List \/ FaultAdd \/ Tick
    \/ DamageSession \/ DamageSalt \/ DamageData

SpecFault == Init /\ [][NextFault]_vars

----------------------------------------------------------------------------
(* Overlapping invocations of add and delete.  An invocation first loads the
   vault (ensure_unlocked) and later mutates what it loaded and writes the
   file; the steps of two invocations interleave.  The master password is
   typed correctly. *)

\* A writer that reads the vault file again just before it writes.
WriterDataReloaded(loaded, current) == current

\* The collection an invocation mutates and writes: the one it loaded, not
\* the one on disk at the time of the write.
WriterData(loaded, current) == loaded

RaceInit ==
    /\ \A p \in Procs : inflight[p].pc # "loaded"
    /\ \E password \in InitPasswords : InitCmd(FALSE, TRUE, password, "ok")

\* ensure_unlocked of an add or a delete, up to the return of the vault.
RaceLoad(p, cmd) ==
    LET eu == EnsureUnlocked(vaultFile, sessionFile, configFile, now, encLog, master)
    IN  /\ inflight[p].pc # "loaded"
        /\ Len(encLog) < MaxWrites
        /\ eu.ok
        /\ cmd = "delete" => SecretTypeOf(eu.data, 1) # 0
        /\ sessionFile' = eu.sess
        /\ inflight' = [inflight EXCEPT ![p] =
               [Idle EXCEPT !.pc = "loaded", !.cmd = cmd, !.data = eu.data,
                            !.key = eu.key, !.loadedAt = Len(encLog)]]
        /\ last' = Report(cmd, "loaded", "none", 0, eu.prompted, master, TRUE,
                          eu.data, NoArgs)
        /\ UNCHANGED <<entropy, encLog, benchVars, vaultFile, configFile, now, master>>

\* add_password after ensure_unlocked: the new record, Vault::save,
\* refresh_session.
RaceAddWrite(p) ==
    LET mine == WriterData(inflight[p].data, Stored.data)
        rec == NewSecret(entropy, 1, SecretValue, now)
        data == [mine EXCEPT !["passwords"] = Append(@, rec)]
        e == VaultSeal(encLog, entropy + 1, inflight[p].key, data)
    IN  /\ inflight[p].pc = "loaded" /\ inflight[p].cmd = "add"
        /\ entropy' = entropy + 2
        /\ encLog' = Append(encLog, e)
        /\ vaultFile' = SaveVaultFile(vaultFile, VaultFileOf(vaultFile.salt, e.out), "ok")
        /\ sessionFile' = RefreshSession(sessionFile, configFile, now, "ok").sess
        /\ inflight' = [inflight EXCEPT ![p] =
               [@ EXCEPT !.pc = "done", !.wroteAt = Len(encLog) + 1,
                         !.written = data, !.id = rec.id, !.exit = 0]]
        /\ last' = Report("add", "added", "none", 0, FALSE, <<>>, TRUE, mine,
                          [kind |-> "passwords", name |-> 1, token |-> EMPTY,
                           id |-> rec.id])
        /\ UNCHANGED <<benchVars, configFile, now, master>>

\* delete --force after ensure_unlocked: the existence check, the deletion,
\* Vault::save.
RaceDeleteWrite(p) ==
    LET mine == WriterData(inflight[p].data, Stored.data)
        kind == Kinds[DeleteKindOf(mine, 1)]
        idx == Lookup(mine[kind], 1)
        data == [mine EXCEPT ![kind] = RemoveAt(@, idx)]
        e == VaultSeal(encLog, entropy, inflight[p].key, data)
    IN  /\ inflight[p].pc = "loaded" /\ inflight[p].cmd = "delete"
        /\ DeleteKindOf(mine, 1) # 0
        /\ entropy' = entropy + 1
        /\ encLog' = Append(encLog, e)
        /\ vaultFile' = SaveVaultFile(vaultFile, VaultFileOf(vaultFile.salt, e.out), "ok")
        /\ inflight' = [inflight EXCEPT ![p] =
               [@ EXCEPT !.pc = "done", !.wroteAt = Len(encLog) + 1,
                         !.written = data, !.id = mine[kind][idx].id, !.exit = 0]]
        /\ last' = Report("delete", "deleted", "none", 0, FALSE, <<>>, TRUE, mine,
                          [kind |-> kind, name |-> mine[kind][idx].name,
                           token |-> 1, id |-> mine[kind][idx].id])
        /\ UNCHANGED <<benchVars, sessionFile, configFile, now, master>>

NextRace ==
    \/ RaceInit
    \/ \E p \in Procs, cmd \in {"add", "delete"} : RaceLoad(p, cmd)
    \/ \E p \in Procs : RaceAddWrite(p)
    \/ \E p \in Procs : RaceDeleteWrite(p)

SpecRace == Init /\ [][NextRace]_vars

----------------------------------------------------------------------------
(* Overlapping invocations on the session file.  unlock is taken in the steps
   between which another invocation can run: the read of the session file
   in get_cached_key, the removal of an expired record, the password prompt
   with Vault::unlock, and the second load of the vault file with
   derive_key and save_session.  add is taken up to the get_cached_key of
   refresh_session, then its save_session.  Invocation 1 is an unlock,
   invocation 2 an add with the master password typed correctly; init, lock
   and the clock run between their steps.  An invocation in flight is
   [pc, cmd, key, pw, timeout, before, removed, wrote]: the key it holds,
   the password typed, the session file it found, the record on disk when
   it removed the file, and the record it wrote.  A step that ends no
   invocation reports nothing. *)

\* init on no vault, init --force (confirmed) on an existing one.
OverlapInit ==
    /\ Len(encLog) < MaxOverlapWrites
    /\ \E password \in InitPasswords :
           InitCmd(vaultFile.exists, TRUE, password, "ok")

\* unlock(timeout) up to the return of the read in get_cached_key
\* (lock.rs:16-28, cache.rs:94-105).
UnlockRead(p, timeout) ==
    LET c == GetCachedKey(sessionFile, now)
        pc == IF ~vaultFile.exists \/ c.some THEN "done"
              ELSE IF c.sess # sessionFile THEN "expired"
              ELSE "prompt"
    IN  /\ inflight[p].pc \in {"idle", "done"}
        /\ inflight' = [inflight EXCEPT ![p] =
               [pc |-> pc, cmd |-> "unlock", key |-> <<>>, pw |-> <<>>,
                timeout |-> IF timeout = NoTimeoutArg
                            THEN LoadConfig(configFile) ELSE timeout,
                before |-> sessionFile, removed |-> NoSession,
                wrote |-> NoSession]]
        /\ last' = IF ~vaultFile.exists
                   THEN Report("unlock", "not-initialized", "NotInitialized", 0,
                               FALSE, <<>>, FALSE, EmptyCollection, UnlockArgs(timeout))
                   ELSE IF c.some
                   THEN Report("unlock", "already-unlocked", "none", 0,
                               FALSE, <<>>, FALSE, EmptyCollection, UnlockArgs(timeout))
                   ELSE last
        /\ UNCHANGED <<entropy, encLog, benchVars, vaultFile, sessionFile,
                       configFile, now, master>>

\* get_cached_key after it has read an expired record: clear_session
\* (cache.rs:105-108, 126-132).
UnlockClear(p) ==
    /\ inflight[p].pc = "expired"
    /\ sessionFile' = ClearSession(sessionFile)
    /\ inflight' = [inflight EXCEPT ![p].pc = "prompt",
                                    ![p].removed = sessionFile]
    /\ UNCHANGED <<entropy, encLog, benchVars, vaultFile, configFile, now, master,
                   last>>

\* The password prompt of unlock and Vault::unlock (lock.rs:34-37, 56-59).
UnlockPrompt(p, password) ==
    LET u == VaultUnlock(vaultFile, encLog, password)
        saves == u.ok /\ inflight[p].timeout > 0
    IN  /\ inflight[p].pc = "prompt"
        /\ inflight' = [inflight EXCEPT ![p].pc = IF saves THEN "unlocked" ELSE "done",
                                        ![p].key = u.key,
                                        ![p].pw = password]
        /\ locked' = (locked /\ ~u.ok)
        /\ last' = IF saves THEN last
                   ELSE IF u.ok
                   THEN Report("unlock", "unlocked", "none", 0, TRUE, password,
                               TRUE, u.data, NoArgs)
                   ELSE Report("unlock", "unlock-failed", u.err, 0, TRUE, password,
                               FALSE, EmptyCollection, NoArgs)
        /\ UNCHANGED <<entropy, encLog, cipherVars, kdfLog, saved, vaultFile,
                       sessionFile, configFile, now, master>>

\* unlock after Vault::unlock: load_vault_file, derive_key from the
\* password and the salt just loaded, save_session (lock.rs:40-45).
UnlockSave(p) ==
    LET key == DeriveKey(inflight[p].pw, vaultFile.salt)
        ok == LoadVaultFile(vaultFile) = "ok" /\ key.ok
        sess == IF ok
                THEN SaveSession(sessionFile, key.val, inflight[p].timeout, now)
                ELSE sessionFile
    IN  /\ inflight[p].pc = "unlocked"
        /\ sessionFile' = sess
        /\ inflight' = [inflight EXCEPT ![p].pc = "done",
                                        ![p].wrote = IF ok THEN sess ELSE NoSession]
        /\ last' = IF ok
                   THEN Report("unlock", "unlocked", "none", 0, TRUE,
                               inflight[p].pw, TRUE, EmptyCollection, NoArgs)
                   ELSE Report("unlock", "failed",
                               IF key.ok THEN LoadVaultFile(vaultFile)
                               ELSE "InvalidSalt",
                               1, TRUE, inflight[p].pw, TRUE, EmptyCollection, NoArgs)
        /\ UNCHANGED <<entropy, encLog, benchVars, vaultFile, configFile, now, master>>

\* add_password with the master password typed correctly: ensure_unlocked,
\* the new record, Vault::save, and the get_cached_key of refresh_session
\* (add.rs:33-58, 220-222).
AddBegin(p) ==
    LET eu == EnsureUnlocked(vaultFile, sessionFile, configFile, now, encLog, master)
        rec == NewSecret(entropy, 1, SecretValue, now)
        data == [eu.data EXCEPT !["passwords"] = Append(@, rec)]
        e == VaultSeal(encLog, entropy + 1, eu.key, data)
        c == GetCachedKey(eu.sess, now)
    IN  /\ inflight[p].pc \in {"idle", "done"}
        /\ Len(encLog) < MaxOverlapWrites
        /\ eu.ok
        /\ entropy' = entropy + 2
        /\ encLog' = Append(encLog, e)
        /\ vaultFile' = SaveVaultFile(vaultFile, VaultFileOf(vaultFile.salt, e.out), "ok")
        /\ sessionFile' = c.sess
        /\ inflight' = [inflight EXCEPT ![p] =
               [pc |-> IF c.some THEN "refresh" ELSE "done", cmd |-> "add",
                key |-> c.key, pw |-> IF eu.prompted THEN master ELSE <<>>,
                timeout |-> NoTimeoutArg, before |-> sessionFile,
                removed |-> NoSession, wrote |-> NoSession]]
        /\ locked' = (locked /\ ~eu.prompted)
        /\ last' = IF c.some THEN last
                   ELSE Report("add", "added", "none", 0, eu.prompted, master, TRUE,
                               eu.data,
                               [kind |-> "passwords", name |-> 1, token |-> EMPTY,
                                id |-> rec.id])
        /\ UNCHANGED <<cipherVars, kdfLog, saved, configFile, now, master>>

\* refresh_session after its get_cached_key: load_config and save_session
\* with the key read (add.rs:223-224).
AddRefresh(p) ==
    LET sess == SaveSession(sessionFile, inflight[p].key, LoadConfig(configFile), now)
    IN  /\ inflight[p].pc = "refresh"
        /\ sessionFile' = sess
        /\ inflight' = [inflight EXCEPT ![p].pc = "done",
                                        ![p].wrote = IF LoadConfig(configFile) > 0
                                                     THEN sess ELSE NoSession]
        /\ last' = Report("add", "added", "none", 0, FALSE, <<>>, TRUE,
                          EmptyCollection, NoArgs)
        /\ UNCHANGED <<entropy, encLog, benchVars, vaultFile, configFile, now, master>>

\* lock(), from start to end.
OverlapLock ==
    /\ sessionFile' = ClearSession(sessionFile)
    /\ locked' = TRUE
    /\ last' = Report("lock", "locked", "none", 0, FALSE, <<>>, FALSE,
                      EmptyCollection, NoArgs)
    /\ UNCHANGED <<entropy, encLog, cipherVars, kdfLog, saved, inflight, vaultFile,
                   configFile, now, master>>

NextOverlap ==
    \/ OverlapInit
    \/ \E timeout \in {1, 11} : UnlockRead(1, timeout)
    \/ UnlockClear(1)
    \/ \E password \in InitPasswords : UnlockPrompt(1, password)
    \/ UnlockSave(1)
    \/ AddBegin(2)
    \/ AddRefresh(2)
    \/ OverlapLock
    \/ Tick

SpecOverlap == Init /\ [][NextOverlap]_vars

----------------------------------------------------------------------------
(* Adds and deletes over time: the master password typed correctly. *)

RecordsInit == \E password \in InitPasswords : InitCmd(FALSE, TRUE, password, "ok")

\* What the prompts of add return: a record of one of two kinds, an empty
\* name, or a name and an empty secret value.
RecordsAdd ==
    \E password \in InitPasswords : \E eu \in Unlocked(password) :
        \E in \in {<<"passwords", 1, SecretValue>>, <<"tokens", 1, SecretValue>>,
                   <<"passwords", EMPTY, EMPTY>>, <<"passwords", 1, EMPTY>>} :
            AddCmd(eu, in[1], in[2], in[3], password, "ok", "ok")

RecordsDelete ==
    \E password \in InitPasswords : \E eu \in Unlocked(password) :
        \E token \in Tokens(eu.data), confirm \in {"force", "no"} :
            DeleteCmd(eu, token, confirm, password, "ok")

\* A minute passes between two invocations.
RecordsTick == now < MaxRecordsNow /\ Tick

NextRecords == RecordsInit \/ RecordsAdd \/ RecordsDelete \/ Lock \/ RecordsTick

SpecRecords == Init /\ [][NextRecords]_vars

\* The same commands on a disk whose writes can fail.
AddIoFails ==
    \E password \in VaultPasswords : \E eu \in Unlocked(password) :
        \E c \in AddChoices,
           io \in {"ok", "fail_open", "fail_write"}, sio \in {"ok", "fail"} :
            /\ (io = "ok") # (sio = "ok")
            /\ AddCmd(eu, c[1], c[2], SecretValue, password, io, sio)

DeleteIoFails ==
    \E password \in VaultPasswords : \E eu \in Unlocked(password) :
        \E token \in Tokens(eu.data), io \in {"fail_open", "fail_write"} :
            DeleteCmd(eu, token, "force", password, io)

NextIo == Next \/ AddIoFails \/ DeleteIoFails

SpecIo == Init /\ [][NextIo]_vars

----------------------------------------------------------------------------
(* Properties of the cipher *)

\* C1: for every key K and plaintext P, decrypt(K, encrypt(K, P)) succeeds
\* and returns exactly P.
C1_RoundTrip ==
    /\ \A i \in 1..Len(encLog) :
          Decrypt(encLog, encLog[i].key, encLog[i].out) = Ok(encLog[i].pt)
    /\ (result.err # "not-run" /\ tampered = "no" /\ dKey = encLog[blobSrc].key)
          => result = Ok(encLog[blobSrc].pt)

C1_Witness ==
    /\ result.ok /\ tampered = "no"
    /\ dKey = encLog[blobSrc].key
    /\ result.val = encLog[blobSrc].pt
    /\ Len(result.val) > 0

\* C2: no two encrypt calls under the same key use the same nonce, and
\* encrypt called twice on the same key and plaintext gives two different
\* outputs.
C2_NonceFresh ==
    \A i, j \in 1..Len(encLog) :
        (i # j /\ encLog[i].key = encLog[j].key) =>
            /\ encLog[i].nonce # encLog[j].nonce
            /\ encLog[i].pt = encLog[j].pt => encLog[i].out # encLog[j].out

C2_Witness ==
    \E i, j \in 1..Len(encLog) :
        /\ i # j
        /\ encLog[i].key = encLog[j].key
        /\ encLog[i].pt = encLog[j].pt
        /\ encLog[i].out # encLog[j].out

\* C3: for keys K1 # K2 and every plaintext P, decrypt(K2, encrypt(K1, P))
\* is a failure and never a plaintext.
C3_WrongKeyFails ==
    /\ \A i \in 1..Len(encLog) : \A k \in Keys :
          k # encLog[i].key => ~Decrypt(encLog, k, encLog[i].out).ok
    /\ (result.err # "not-run" /\ tampered = "no" /\ dKey # encLog[blobSrc].key)
          => ~result.ok

C3_Witness ==
    /\ result.err = "DecryptionFailed" /\ tampered = "no"
    /\ dKey # encLog[blobSrc].key

\* C4: decrypt fails in exactly two ways, whatever the key: a blob that is
\* not valid base64 or decodes to fewer than 12 bytes gives InvalidFormat;
\* a wrong key, a tampered payload and a payload truncated to 12 bytes or
\* more all give the same DecryptionFailed.
C4_TwoFailures ==
    /\ \A k \in Keys :
          LET r == Decrypt(encLog, k, blob)
          IN  /\ tampered \in {"short", "garbled"} => r = Err("InvalidFormat")
              /\ tampered \in {"flipped", "truncated"} => r = Err("DecryptionFailed")
              /\ (tampered = "no" /\ blobSrc # 0 /\ k # encLog[blobSrc].key)
                    => r = Err("DecryptionFailed")
              /\ r.ok \/ r.err \in {"InvalidFormat", "DecryptionFailed"}
    /\ result.err # "not-run" => result = Decrypt(encLog, dKey, blob)

C4_Witness ==
    /\ tampered = "truncated"
    /\ Len(B64Decode(blob).val) >= NONCE_SIZE
    /\ result = Err("DecryptionFailed")

----------------------------------------------------------------------------
(* Properties of key derivation *)

\* C5: derive_key is a function of (password, salt): the same password and
\* salt give the same 32-byte key, and another password or another salt
\* gives another key.
C5_DeriveKeyFunction ==
    \A i, j \in 1..Len(kdfLog) :
        LET a == kdfLog[i]
            b == kdfLog[j]
        IN  /\ a.res.ok => Len(a.res.val) = KEY_LEN
            /\ (a.password = b.password /\ a.salt = b.salt) => a.res = b.res
            /\ (a.res.ok /\ b.res.ok
                  /\ (a.password # b.password \/ a.salt # b.salt))
                  => a.res.val # b.res.val

C5_Witness ==
    \E i, j, k \in 1..Len(kdfLog) :
        /\ i # j
        /\ kdfLog[i].res.ok /\ kdfLog[k].res.ok
        /\ kdfLog[i].password = kdfLog[j].password
        /\ kdfLog[i].salt = kdfLog[j].salt
        /\ kdfLog[i].res = kdfLog[j].res
        /\ kdfLog[k].password = kdfLog[i].password
        /\ kdfLog[k].salt # kdfLog[i].salt
        /\ kdfLog[k].res.val # kdfLog[i].res.val

----------------------------------------------------------------------------
(* Properties of the vault commands *)

\* The record an add command reports having made.
AddedRecord(r) ==
    [id |-> r.args.id, name |-> r.args.name, secret |-> SecretValue,
     created_at |-> now]

\* What a fresh unlock with the master password decoded from the vault file
\* as it was before the last command.
StoredBefore == VaultUnlock(last.pre, encLog, master)

\* C6: starting with no vault file, init(p) followed by unlock(p) with the
\* same password succeeds and yields an empty secret collection: while the
\* file init wrote is the only one written, a fresh unlock with p opens it
\* and decodes the empty collection, and so does the unlock command.
C6_InitThenUnlock ==
    (Len(encLog) = 1 /\ vaultFile.exists)
        => /\ Stored.ok
           /\ Stored.data = EmptyCollection
           /\ (last.cmd = "unlock" /\ last.prompted /\ last.pw = master)
                => (/\ last.outcome = "unlocked"
                    /\ last.seen = EmptyCollection)

C6_Witness ==
    /\ Len(encLog) = 1
    /\ last.cmd = "unlock" /\ last.prompted /\ last.pw = master
    /\ last.outcome = "unlocked"
    /\ last.seen = EmptyCollection

\* C7: an unlock attempt with a password other than the one the vault was
\* initialized with fails with the single generic outcome and leaves the
\* vault file as it was, whether the unlock command makes the attempt or the
\* password prompt inside ensure_unlocked (list, add, delete).
C7_WrongPasswordFails ==
    (/\ last.cmd \in {"unlock", "list", "add", "delete"}
     /\ last.prompted
     /\ last.pw # master)
        => (/\ last.err = "InvalidPassword"
            /\ ~last.unlocked
            /\ last.outcome = (IF last.cmd = "unlock" THEN "unlock-failed"
                               ELSE "failed")
            /\ vaultFile = last.pre)

C7_Witness ==
    /\ last.cmd = "add"
    /\ last.prompted
    /\ last.pw # master
    /\ last.err = "InvalidPassword"
    /\ vaultFile = last.pre
    /\ Stored.ok

\* C8: whenever an add or delete invocation ends in failure, at whatever
\* step, the vault file is exactly what it was before the invocation.
C8_FailureLeavesVaultFile ==
    (last.cmd \in {"add", "delete"} /\ last.exit = 1) => vaultFile = last.pre

\* C9: after a successful add, a fresh unlock sees the added record after
\* every record that was there before, each unchanged and in order; commands
\* that do not mutate leave the file alone, and what unlock and list show is
\* what is stored.
C9_AddSurfaces ==
    /\ (last.cmd = "add" /\ last.outcome = "added")
        => (/\ StoredBefore.ok /\ Stored.ok
            /\ Stored.data =
                  [StoredBefore.data EXCEPT ![last.args.kind] =
                        Append(@, AddedRecord(last))])
    /\ (last.cmd \in {"lock", "unlock", "list"}) => (vaultFile = last.pre)
    /\ (last.cmd \in {"unlock", "list"} /\ last.unlocked)
        => (Stored.ok /\ last.seen = Stored.data)

C9_Witness ==
    /\ last.cmd = "unlock" /\ last.outcome = "unlocked" /\ last.prompted
    /\ Len(last.seen["passwords"]) = 2
    /\ last.seen["passwords"][1].id # last.seen["passwords"][2].id

\* C10: a successful delete removes exactly one record, the one the token
\* resolves to (by identifier, else the first by name, in the first kind
\* that has a match), and leaves every other record of every kind unchanged,
\* also when several records share the deleted record's name.
C10_DeleteExactlyOne ==
    (last.cmd = "delete" /\ last.outcome = "deleted")
        => LET before == StoredBefore.data
               t == last.args.token
               k == Kinds[SecretTypeOf(before, t)]
               i == Lookup(before[k], t)
           IN  /\ StoredBefore.ok /\ Stored.ok
               /\ SecretTypeOf(before, t) # 0
               /\ \/ before[k][i].id = t
                  \/ /\ before[k][i].name = t
                     /\ \A j \in 1..Len(before[k]) :
                           /\ before[k][j].id # t
                           /\ (before[k][j].name = t => i <= j)
               /\ Stored.data = [before EXCEPT ![k] = RemoveAt(@, i)]

\* A record was deleted by a name that a later record of the same kind
\* carries too.
C10_Witness ==
    /\ last.cmd = "delete" /\ last.outcome = "deleted"
    /\ last.args.kind = "passwords"
    /\ last.args.token = last.args.name
    /\ Len(last.seen["passwords"]) = 2
    /\ last.seen["passwords"][1].name = last.seen["passwords"][2].name
    /\ Stored.ok
    /\ Len(Stored.data["passwords"]) = 1
    /\ Stored.data["passwords"][1] = last.seen["passwords"][2]

----------------------------------------------------------------------------
(* Properties of lookup and of the vault states *)

\* The records of a collection in collection order: kind by kind, each kind
\* in list order, as <<kind number, position>>.
Positions(data) ==
    UNION {{<<k, i>> : i \in 1..Len(data[Kinds[k]])} : k \in 1..Len(Kinds)}

Before(p, q) == p[1] < q[1] \/ (p[1] = q[1] /\ p[2] <= q[2])

RecordAt(data, p) == data[Kinds[p[1]]][p[2]]

\* The record a token stands for: the one with that identifier if there is
\* one, else the first in collection order with that name; <<0, 0>> if none.
Resolves(data, token) ==
    LET byId   == {p \in Positions(data) : RecordAt(data, p).id = token}
        byName == {p \in Positions(data) : RecordAt(data, p).name = token}
        first(S) == CHOOSE p \in S : \A q \in S : Before(p, q)
    IN  IF byId # {} THEN first(byId)
        ELSE IF byName # {} THEN first(byName)
        ELSE <<0, 0>>

\* C11: get and delete resolve a token against identifiers first and only
\* then against names: the record get shows or delete removes is the one
\* with that identifier if any record has it, else the first record in
\* collection order with that name; so a record is found by its identifier
\* and by its unique name alike.
C11_IdentifierFirst ==
    (last.cmd \in {"get", "delete"} /\ last.outcome \in {"shown", "deleted"})
        => LET p == Resolves(last.seen, last.args.token)
           IN  /\ p # <<0, 0>>
               /\ Kinds[p[1]] = last.args.kind
               /\ RecordAt(last.seen, p).id = last.args.id

\* C12: init on an existing vault without force ends as already-exists,
\* asks for no password and leaves the vault file and the session record
\* unchanged; a declined confirmation leaves everything unchanged; the
\* vault is replaced only, and then by a new empty one, when force is given
\* and the confirmation is answered yes.
C12_InitNeedsForce ==
    (last.cmd = "init" /\ last.pre.exists)
        => /\ ~last.args.force
                => (/\ last.outcome = "already-exists"
                    /\ ~last.prompted
                    /\ vaultFile = last.pre
                    /\ sessionFile = last.preSess)
           /\ (last.args.force /\ ~last.args.confirmed)
                => (/\ last.outcome = "aborted"
                    /\ ~last.prompted
                    /\ vaultFile = last.pre
                    /\ sessionFile = last.preSess)
           /\ (last.args.force /\ last.args.confirmed)
                => (/\ last.outcome = "initialized"
                    /\ vaultFile # last.pre
                    /\ Stored.ok /\ Stored.data = EmptyCollection)

\* A vault that held a record was replaced by a forced, confirmed init.
C12_Witness ==
    /\ last.cmd = "init" /\ last.outcome = "initialized"
    /\ last.args.force /\ last.args.confirmed
    /\ StoredBefore.ok /\ StoredBefore.data # EmptyCollection
    /\ vaultFile # last.pre
    /\ Stored.data = EmptyCollection

\* The commands that work on the secret collection.
VaultCommands == {"add", "delete", "get", "list"}

\* What the cached key of the session record, as it was before the last
\* command, decrypts from the vault file as it was before the last command.
CachedBefore ==
    LET c == GetCachedKey(last.preSess, now)
        d == Decrypt(encLog, c.key, last.pre.encrypted_data)
    IN  IF c.some /\ LoadVaultFile(last.pre) = "ok" /\ d.ok
        THEN Deserialize(d.val)
        ELSE [ok |-> FALSE, data |-> EmptyCollection]

\* C13: add, delete, get and list work on the collection only when
\* ensure_unlocked has decrypted the current vault file, with a valid cached
\* key or with the key derived from the entered password, and otherwise
\* show and change nothing; with no vault file they fail as not initialized
\* without prompting and without creating a vault file or a session record.
C13_OnlyUnlocked ==
    (last.cmd \in VaultCommands)
        => /\ ~last.pre.exists
                => (/\ last.err = "NotInitialized" /\ last.exit = 1
                    /\ ~last.prompted /\ ~last.unlocked
                    /\ ~vaultFile.exists
                    /\ sessionFile = last.preSess)
           /\ last.unlocked
                => (/\ last.pre.exists
                    /\ IF last.prompted
                       THEN /\ last.pw = master
                            /\ StoredBefore.ok /\ last.seen = StoredBefore.data
                       ELSE /\ CachedBefore.ok /\ last.seen = CachedBefore.data)
           /\ ~last.unlocked
                => (/\ last.exit = 1
                    /\ last.seen = EmptyCollection
                    /\ vaultFile = last.pre)

\* A get with no vault file was refused.
C13_Witness ==
    /\ last.cmd = "get"
    /\ ~last.pre.exists
    /\ last.err = "NotInitialized"
    /\ ~vaultFile.exists /\ ~sessionFile.exists

\* The nonce in front of the ciphertext of a vault file.
FileNonce(vf) == Take(B64Decode(vf.encrypted_data).val, NONCE_SIZE)

\* C14: after any sequence of init, unlock, add, delete, lock and config
\* commands the vault file decrypts to a valid collection under the key
\* derived from the master password and the salt stored in the same file;
\* add and delete keep the salt and the key and replace the file as a whole
\* with a ciphertext made under a nonce not used before.
C14_FileMatchesMaster ==
    /\ vaultFile.exists
        => (/\ DeriveKey(master, vaultFile.salt).ok
            /\ Stored.ok
            /\ Stored.key = DeriveKey(master, vaultFile.salt).val)
    /\ (last.cmd \in {"add", "delete"} /\ last.outcome \in {"added", "deleted"})
        => LET n == Len(encLog)
           IN  /\ vaultFile.salt = last.pre.salt
               /\ encLog[n].key = StoredBefore.key
               /\ vaultFile = VaultFileOf(last.pre.salt, encLog[n].out)
               /\ FileNonce(vaultFile) = encLog[n].nonce
               /\ FileNonce(vaultFile) # FileNonce(last.pre)
               /\ \A i \in 1..(n - 1) : encLog[i].nonce # encLog[n].nonce

\* A delete rewrote the vault after the timeout had been configured.
C14_Witness ==
    /\ last.cmd = "delete" /\ last.outcome = "deleted"
    /\ configFile # NoConfig
    /\ Stored.ok
    /\ vaultFile.salt = last.pre.salt
    /\ vaultFile.encrypted_data # last.pre.encrypted_data

\* C15: when the configured timeout_minutes is 0, every command that needs
\* the vault prompts for the master password, also when a session record
\* saved before the timeout was set to 0 is still on disk and not expired.
C15_ZeroTimeoutPrompts ==
    (/\ last.cmd \in VaultCommands
     /\ last.pre.exists
     /\ LoadConfig(configFile) = 0)
        => last.prompted

----------------------------------------------------------------------------
(* Properties of the session cache *)

\* C16: save_session(key, 0) is a no-op that returns success: it leaves the
\* session file, present or absent, exactly as it was.
C16_SaveZeroIsNoop ==
    (last.cmd = "save_session" /\ saved.timeout_minutes = 0)
        => (result.ok /\ sessionFile = last.preSess)

\* save_session(key, 0) was called with a session record on disk that holds
\* another key.
C16_Witness ==
    /\ last.cmd = "save_session" /\ saved.timeout_minutes = 0
    /\ last.preSess.exists
    /\ sessionFile.exists
    /\ GetCachedKey(sessionFile, now).some
    /\ GetCachedKey(sessionFile, now).key # saved.key

\* C17: for every key and every timeout t > 0, get_cached_key made after
\* save_session(key, t) and not after expires_at returns exactly that key.
C17_SessionRoundTrip ==
    (/\ last.cmd = "get_cached_key"
     /\ saved.timeout_minutes > 0
     /\ now <= saved.at + saved.timeout_minutes)
        => (/\ result.ok
            /\ result.val = saved.key
            /\ sessionFile = last.preSess)

\* The derived key came back from the cache in the minute the record expires.
C17_Witness ==
    /\ last.cmd = "get_cached_key"
    /\ saved.timeout_minutes > 0
    /\ now = saved.at + saved.timeout_minutes
    /\ saved.key \notin Keys
    /\ result = Ok(saved.key)

C19_MutationsRefresh ==
    (/\ last.cmd \in {"add", "delete"}
     /\ last.outcome \in {"added", "deleted"}
     /\ LoadConfig(configFile) > 0)
        => /\ sessionFile.exists
           /\ GetCachedKey(sessionFile, now).some
           /\ GetCachedKey(sessionFile, now).key = DeriveKey(master, vaultFile.salt).val
           /\ sessionFile.expires_at = now + LoadConfig(configFile)

\* C20: lock always succeeds, with or without a session record, leaves no
\* session record and does not touch the vault file; a command that needs
\* the vault and finds no session record prompts for the master password.
C20_LockClears ==
    /\ last.cmd = "lock"
           => /\ last.outcome = "locked" /\ last.exit = 0
              /\ ~sessionFile.exists
              /\ ~GetCachedKey(sessionFile, now).some
              /\ vaultFile = last.pre
    /\ (last.cmd \in VaultCommands \cup {"unlock"} /\ last.pre.exists
            /\ ~last.preSess.exists)
           => last.prompted

\* lock removed the session record of an unlocked vault.
C20_Witness ==
    /\ last.cmd = "lock"
    /\ last.preSess.exists
    /\ GetCachedKey(last.preSess, now).some
    /\ ~sessionFile.exists

----------------------------------------------------------------------------
(* Properties of the session record across commands *)

\* C21: after a forced initialization has succeeded no session record is on
\* disk, in particular none that holds the key of the destroyed vault.
C21_ForcedInitClears ==
    (last.cmd = "init" /\ last.outcome = "initialized" /\ last.args.force)
        => /\ ~sessionFile.exists
           /\ ~GetCachedKey(sessionFile, now).some

\* A forced initialization replaced a vault that a valid session record had
\* unlocked.
C21_Witness ==
    /\ last.cmd = "init" /\ last.outcome = "initialized"
    /\ last.args.force /\ last.args.confirmed
    /\ GetCachedKey(last.preSess, now).some
    /\ Decrypt(encLog, GetCachedKey(last.preSess, now).key, last.pre.encrypted_data).ok
    /\ ~sessionFile.exists

\* A session file that holds no usable key: unreadable, not a SessionData
\* record, key_data that is not base64 of KEY_LEN bytes, or expired.
Unusable(sf, t) ==
    /\ sf.exists
    /\ \/ sf.form # "json"
       \/ ~B64Decode(sf.key_data).ok
       \/ Len(B64Decode(sf.key_data).val) # KEY_LEN
       \/ sf.expires_at < t

\* C22: a command that finds a session file without a usable key prompts
\* for the master password and does not report a session error; if the
\* password is right and the vault file opens under it, the command
\* completes.
C22_BadSessionPrompts ==
    (last.cmd \in VaultCommands \cup {"unlock"} /\ last.pre.exists /\ Unusable(last.preSess, now))
        => /\ last.prompted
           /\ last.err # "SessionExpiredOrCorrupted"
           /\ (last.pw = master /\ StoredBefore.ok)
                 => /\ last.outcome \in {"listed", "added", "unlocked"}
                    /\ last.exit = 0

\* A listing found a session file that is not a SessionData record, prompted,
\* and listed the vault; the file holds a new record afterwards.
C22_Witness ==
    /\ last.cmd = "list" /\ last.pre.exists
    /\ last.preSess.exists /\ last.preSess.form = "not_json"
    /\ last.prompted /\ last.pw = master
    /\ last.outcome = "listed"
    /\ WellFormed(sessionFile)

\* C23: whatever the cause of an authentication failure (a cached key that
\* does not decrypt the vault, a wrong master password, a changed
\* ciphertext) the command reports the same generic outcome.
C23_OneGenericReport ==
    (/\ last.cmd \in VaultCommands
     /\ LoadVaultFile(last.pre) = "ok"
     /\ \/ /\ GetCachedKey(last.preSess, now).some
           /\ ~Decrypt(encLog, GetCachedKey(last.preSess, now).key,
                       last.pre.encrypted_data).ok
        \/ /\ last.prompted
           /\ DeriveKey(last.pw, last.pre.salt).ok
           /\ ~Decrypt(encLog, DeriveKey(last.pw, last.pre.salt).val,
                       last.pre.encrypted_data).ok)
        => /\ last.outcome = "failed"
           /\ last.err = "InvalidPassword"

----------------------------------------------------------------------------
(* Properties of overlapping invocations *)

\* Both invocations loaded the vault file before either wrote it.
Overlapped(p, q) ==
    /\ inflight[p].pc = "done" /\ inflight[q].pc = "done"
    /\ inflight[p].loadedAt < inflight[q].wroteAt
    /\ inflight[q].loadedAt < inflight[p].wroteAt

\* C25: when two adds or deletes overlap so that both load the vault file
\* before either writes it, both end without error, and the vault file left
\* by the later writer holds exactly the collection that writer made from
\* what it had loaded: unless the two changes are the same deletion, the
\* earlier writer's added record is missing, or the record it deleted is
\* back if the later writer had loaded it, and no report says so.
C25_LastWriterWins ==
    \A p, q \in Procs :
        (/\ Overlapped(p, q)
         /\ inflight[p].wroteAt < inflight[q].wroteAt
         /\ Len(encLog) = inflight[q].wroteAt)
            => /\ inflight[p].exit = 0 /\ inflight[q].exit = 0
               /\ last.cmd \in {"add", "delete"}
                     => (last.err = "none" /\ last.exit = 0)
               /\ Stored.ok
               /\ Stored.data = inflight[q].written
               /\ inflight[p].id # inflight[q].id
                     => /\ inflight[p].cmd = "add"
                             => inflight[p].id \notin Ids(Stored.data)
                        /\ inflight[p].cmd = "delete"
                             => (inflight[p].id \in Ids(Stored.data)
                                   <=> inflight[p].id \in Ids(inflight[q].data))

\* An add and a delete overlapped, the delete wrote last: the added record
\* is lost.
C25_Witness ==
    \E p, q \in Procs :
        /\ Overlapped(p, q)
        /\ inflight[p].cmd = "add" /\ inflight[q].cmd = "delete"
        /\ inflight[p].wroteAt < inflight[q].wroteAt
        /\ Len(encLog) = inflight[q].wroteAt
        /\ inflight[p].id \notin Ids(Stored.data)

----------------------------------------------------------------------------
(* Properties of unlock, of damaged vault files and of the records *)

\* C26: unlock --timeout T with T > 0 that ends unlocked leaves a session
\* record that expires T minutes from now if the password was asked, and
\* one valid for at least T more minutes if a session was already valid;
\* with T = 0 a correct password unlocks and no session record is written.
C26_UnlockTimeout ==
    (last.cmd = "unlock" /\ last.args.timeout # NoTimeoutArg)
        => /\ (last.outcome = "unlocked" /\ last.args.timeout > 0)
                 => /\ WellFormed(sessionFile)
                    /\ sessionFile.expires_at = now + last.args.timeout
           /\ (last.outcome = "already-unlocked" /\ last.args.timeout > 0)
                 => /\ WellFormed(sessionFile)
                    /\ sessionFile.expires_at >= now + last.args.timeout
           /\ (last.outcome = "unlocked" /\ last.args.timeout = 0)
                 => sessionFile = GetCachedKey(last.preSess, now).sess

\* unlock asked for the password on a vault file whose salt is malformed.
UnlockOnBadSalt ==
    /\ last.cmd = "unlock" /\ last.prompted
    /\ last.pre.exists /\ ~last.pre.torn
    /\ ~SaltFromB64(last.pre.salt)

RecordsOf(data) == {RecordAt(data, p) : p \in Positions(data)}

\* C28: the records of the stored collection have pairwise distinct
\* identifiers; an add gives its record an identifier no stored record has
\* and the current time, and an add or a delete leaves every other record,
\* its identifier and creation time included, as it was.
C28_DistinctIds ==
    /\ Stored.ok
          => \A p, q \in Positions(Stored.data) :
                 RecordAt(Stored.data, p).id = RecordAt(Stored.data, q).id => p = q
    /\ (last.cmd = "add" /\ last.outcome = "added")
          => /\ last.args.id \notin Ids(StoredBefore.data)
             /\ \E r \in RecordsOf(Stored.data) :
                    /\ r.id = last.args.id /\ r.created_at = now
                    /\ RecordsOf(Stored.data) = RecordsOf(StoredBefore.data) \cup {r}
    /\ (last.cmd = "delete" /\ last.outcome = "deleted")
          => \E r \in RecordsOf(StoredBefore.data) :
                 /\ r.id = last.args.id
                 /\ RecordsOf(Stored.data) = RecordsOf(StoredBefore.data) \ {r}

\* A record was deleted and an older record of the same name is still
\* stored, with the identifier and the creation time it was given.
C28_Witness ==
    /\ last.cmd = "delete" /\ last.outcome = "deleted"
    /\ \E r \in RecordsOf(Stored.data), d \in RecordsOf(StoredBefore.data) :
           /\ d.id = last.args.id
           /\ r.id # d.id /\ r.name = d.name
           /\ r.created_at < d.created_at

\* The add or delete just run stopped before mutating: a required field was
\* empty, the token matched no record, or the confirmation was declined.
Stopped ==
    /\ last.cmd \in {"add", "delete"}
    /\ last.outcome \in {"rejected", "not-found", "aborted"}

\* C29: an add or a delete that stops before mutating leaves the vault file
\* unchanged and does not refresh the session: run on a valid session it
\* leaves the session record as it was; run on a locked vault, the session
\* record is the one the prompt path of ensure_unlocked wrote.
C29_StoppedFrame ==
    Stopped
        => /\ vaultFile = last.pre
           /\ last.exit = 0
           /\ ~last.prompted => sessionFile = last.preSess
           /\ last.prompted
                 => /\ ~GetCachedKey(last.preSess, now).some
                    /\ IF LoadConfig(configFile) > 0
                       THEN /\ sessionFile.exists
                            /\ sessionFile.expires_at = now + LoadConfig(configFile)
                       ELSE sessionFile = GetCachedKey(last.preSess, now).sess

\* An add with an empty secret value ran on a session record written
\* earlier: the record still expires when it did.
C29_Witness ==
    /\ last.cmd = "add" /\ last.outcome = "rejected"
    /\ ~last.prompted
    /\ last.preSess.exists
    /\ sessionFile = last.preSess
    /\ sessionFile.expires_at < now + LoadConfig(configFile)

\* C29 as stated: the command leaves the vault file and the session expiry
\* unchanged.
C29_AsStated ==
    Stopped
        => /\ vaultFile = last.pre
           /\ sessionFile.exists = last.preSess.exists
           /\ sessionFile.expires_at = last.preSess.expires_at

\* C30: with commands run one at a time, a key that get_cached_key returns
\* decrypts the vault file on disk; so a command that needs the vault and
\* finds such a key, as after unlock has reported that the vault is already
\* unlocked, succeeds without a password prompt.
C30_CachedKeyDecrypts ==
    /\ (vaultFile.exists /\ GetCachedKey(sessionFile, now).some)
          => Decrypt(encLog, GetCachedKey(sessionFile, now).key,
                     vaultFile.encrypted_data).ok
    /\ (last.cmd \in VaultCommands /\ last.pre.exists
            /\ GetCachedKey(last.preSess, now).some)
          => /\ ~last.prompted
             /\ last.unlocked
             /\ last.exit = 0

\* A listing ran without a prompt on the session of a vault that had
\* replaced another one.
C30_Witness ==
    /\ last.cmd = "list" /\ last.outcome = "listed" /\ ~last.prompted
    /\ InitCount = 2
    /\ GetCachedKey(sessionFile, now).some
    /\ GetCachedKey(sessionFile, now).key = DeriveKey(master, vaultFile.salt).val

\* C31: once a lock has completed, and until a password has unlocked the
\* vault, no invocation reads the vault without a password: ensure_unlocked
\* run in that state prompts whenever it returns the vault, also when the
\* lock ran between the get_cached_key and the save_session of the
\* refresh_session of an add.
C31_LockHolds ==
    locked
        => \A pw \in VaultPasswords :
               LET eu == EnsureUnlocked(vaultFile, sessionFile, configFile, now,
                                        encLog, pw)
               IN  eu.ok => eu.prompted

\* C32: the session record that the refresh_session of a successful add
\* writes does not expire earlier than the record the add found, also when
\* that record was written by unlock --timeout T with T above the
\* configured timeout_minutes.
C32_RefreshExtends ==
    \A p \in Procs :
        (/\ inflight[p].cmd = "add" /\ inflight[p].pc = "done"
         /\ inflight[p].before.exists /\ inflight[p].wrote.exists)
            => inflight[p].wrote.expires_at >= inflight[p].before.expires_at

\* C33: the key in the session record that unlock writes after a password
\* unlock is the key that decrypted the vault in that invocation, also when
\* a forced init replaces the vault file between Vault::unlock and the
\* second load of the vault file.
C33_SavedKeyDecrypted ==
    \A p \in Procs :
        (inflight[p].cmd = "unlock" /\ inflight[p].wrote.exists)
            => GetCachedKey(inflight[p].wrote, inflight[p].wrote.expires_at).key
                   = inflight[p].key

\* C34: the record on disk at the moment get_cached_key removes the session
\* file has expired: a record written by another invocation after the read
\* of the expired one is not removed.
C34_RemovesOnlyExpired ==
    \A p \in Procs :
        (inflight[p].cmd = "unlock" /\ inflight[p].removed.exists)
            => inflight[p].removed.expires_at < now

\* C35: a password attempt that fails, in unlock or in ensure_unlocked,
\* writes no session record: the session file is as the cache read before
\* the prompt left it, it holds no usable key, and a command run next, then
\* or later, with any password, prompts again.
C35_FailedAttemptNoSession ==
    (last.cmd \in VaultCommands \cup {"unlock"} /\ last.prompted /\ ~last.unlocked)
        => /\ sessionFile = GetCachedKey(last.preSess, now).sess
           /\ ~GetCachedKey(sessionFile, now).some
           /\ \A t \in now..MaxNow, pw \in VaultPasswords :
                  /\ ~GetCachedKey(sessionFile, t).some
                  /\ EnsureUnlocked(vaultFile, sessionFile, configFile, t,
                                    encLog, pw).prompted

\* A listing was given a wrong password while a session file without a
\* usable key was on disk, on a vault that the master password opens.
C35_Witness ==
    /\ last.cmd = "list" /\ last.outcome = "failed"
    /\ last.prompted /\ last.pw # master
    /\ last.preSess.exists
    /\ Stored.ok

\* C36: on the same collection and token, delete removes the record that
\* get displays: for every token, get, the existence check of delete and
\* the deletion pick the same kind, the first in the order password, API
\* key, note, database credential, token that has a match; a delete that
\* ran removed from the collection it loaded exactly the record get shows
\* there, and a get that ran showed the record delete would remove.
C36_DeleteRemovesWhatGetShows ==
    LET stored == Stored
    IN  /\ stored.ok
              => \A token \in Tokens(stored.data) :
                     LET g == GetKindOf(stored.data, token)
                     IN  /\ g = SecretTypeOf(stored.data, token)
                         /\ g = DeleteKindOf(stored.data, token)
                         /\ \A j \in 1..Len(Kinds) :
                                Lookup(stored.data[Kinds[j]], token) # 0
                                    => g # 0 /\ g <= j
        /\ (last.cmd = "delete" /\ last.outcome = "deleted")
              => LET g == GetKindOf(last.seen, last.args.token)
                     i == Lookup(last.seen[Kinds[g]], last.args.token)
                 IN  /\ g # 0
                     /\ last.args.kind = Kinds[g]
                     /\ last.args.id = last.seen[Kinds[g]][i].id
                     /\ last.seen = StoredBefore.data
                     /\ stored.data = [last.seen EXCEPT ![Kinds[g]] = RemoveAt(@, i)]
        /\ (last.cmd = "get" /\ last.outcome = "shown")
              => LET d == DeleteKindOf(last.seen, last.args.token)
                     i == Lookup(last.seen[Kinds[d]], last.args.token)
                 IN  /\ d # 0 /\ d = SecretTypeOf(last.seen, last.args.token)
                     /\ last.args.kind = Kinds[d]
                     /\ last.args.id = last.seen[Kinds[d]][i].id

\* A name carried by a password and by a token was deleted: the password is
\* gone and the token is still there.
C36_Witness ==
    /\ last.cmd = "delete" /\ last.outcome = "deleted"
    /\ last.args.kind = "passwords"
    /\ last.args.token = last.args.name
    /\ Lookup(last.seen["tokens"], last.args.token) # 0
    /\ Lookup(Stored.data["tokens"], last.args.token) # 0
    /\ Len(Stored.data["passwords"]) < Len(last.seen["passwords"])

====
